---- MODULE Spec2Model ----
(***************************************************************************)
(* Alert lifecycle of the monitoring dashboard.                            *)
(*                                                                         *)
(*  - the shared `alerts` table and the operations that write it (create,  *)
(*    acknowledge, resolve, autoResolve).  The Flask backend and the       *)
(*    evaluator are not part of the supplied source; they are modelled     *)
(*    from sections 4.1, 4.3 and 6 of the specification;                   *)
(*  - the Alerts page (Frontend/src/pages/Logs.jsx, component Alerts):     *)
(*    realtime subscription, fetchStats, fetchAlerts, showAlertToast;      *)
(*  - the AlertProvider context (READme.md, lines 51-310): realtime        *)
(*    subscription, showAlertToast, acknowledgeAlert, resolveAlert.        *)
(***************************************************************************)
EXTENDS Naturals, Integers, Sequences, FiniteSets, Bags, TLC

VARIABLES
    table,           \* the alerts collection, in creation order (id = index)
    calls,           \* bag of transition requests in flight / answered
    alerts_changes,  \* realtime channel of the Alerts page: queued events
    redelivered,     \* number of events the feed delivered a second time
    socket,          \* connection of the realtime client: "joined" or "down"
    mounted,         \* the Alerts page is mounted (subscribed)
    alerts,          \* Alerts page: const [alerts, setAlerts]
    stats,           \* Alerts page: const [stats, setStats]
    filters,         \* Alerts page: const [filters, setFilters]
    page,            \* Alerts page: const [page, setPage]
    hasMore,         \* Alerts page: const [hasMore, setHasMore]
    loading,         \* Alerts page: const [loading, setLoading]
    error,           \* Alerts page: const [error, setError]
    statsFetches,    \* Alerts page: fetchStats() calls in flight
    alertsFetches,   \* Alerts page: fetchAlerts() calls in flight
    statsErrors,     \* Alerts page: fetchStats logged 'Error fetching stats:'
    toasts,          \* Alerts page: toasts on screen (react-toastify)
    user,            \* AlertProvider: const { user } = useAuth()
    alerts_channel,  \* realtime channel of the AlertProvider: queued events
    provAlerts,      \* AlertProvider: const [alerts, setAlerts]
    alertStats,      \* AlertProvider: const [alertStats, setAlertStats]
    provLoading,     \* AlertProvider: const [loading, setLoading]
    provFetches,     \* AlertProvider: fetchAlerts() calls in flight
    provStatsFetches,\* AlertProvider: fetchAlertStats() calls in flight
    provToasts,      \* AlertProvider: toasts on screen
    system_logs,     \* the system_logs table
    logsView,        \* Logs page: its state and its fetchLogs() calls in flight
    authView,        \* Supabase AuthProvider: its state and role fetches
    homeView,        \* Proxmox Home view: its state and VM-list fetches
    dashView,        \* Home view: dashboard URL state and the local storage
    localAuth,       \* localStorage AuthProvider: its state and the storage
    exportView,      \* export panel: its state and its HTTP requests
    roleView         \* Home view: ensureUserAndRole runs and the role tables

backendVars == <<table, calls>>
feedVars == <<alerts_changes, alerts_channel, redelivered, socket>>
pageVars == <<mounted, alerts, stats, filters, page, hasMore, loading, error,
              statsFetches, alertsFetches, statsErrors, toasts>>
provVars == <<user, provAlerts, alertStats, provLoading, provFetches,
              provStatsFetches, provToasts>>
alertVars == <<backendVars, feedVars, pageVars, provVars>>
viewVars == <<system_logs, logsView, authView, homeView, dashView, localAuth,
              exportView, roleView>>
vars == <<alertVars, viewVars>>

----------------------------------------------------------------------------
(* Bounds of the model *)

MaxAlerts == 2      \* rows the evaluator inserts
MaxViewed == 1      \* rows the evaluator inserts while viewers are watched
MaxCalls == 2       \* transition requests in flight at once
MaxQueue == 2       \* events queued on one realtime channel
MaxRedeliver == 1   \* events the feed delivers a second time
MaxInflight == 2    \* fetches of one kind in flight at once

(* Program constants *)

PAGE_SIZE == 50

----------------------------------------------------------------------------
(* Data model (specification, section 3) *)

Severities == {"low", "medium", "high"}
Statuses == {"active", "acknowledged", "resolved", "auto_resolved"}
OpenStatuses == {"active", "acknowledged"}

\* What the evaluator hands to create: the breached (resource, metric,
\* category) tuple, the severity and the reading.
Evaluation(resource, metric, category, severity, value) ==
    [resource_name |-> resource, metric_name |-> metric, category |-> category,
     severity |-> severity, current_value |-> value]

\* The breaches of the model: two readings of one tuple and another tuple.
Evaluations ==
    { Evaluation("node-a", "cpu", "node_health", "high", 95),
      Evaluation("node-a", "cpu", "node_health", "high", 97),
      Evaluation("vm-1", "mem", "vm_resource", "low", 85) }

\* The evaluator's readings: a second reading of node-a's cpu has another
\* severity, so a refreshed record differs from an inserted one.
Breaches ==
    { Evaluation("node-a", "cpu", "node_health", "high", 95),
      Evaluation("node-a", "cpu", "node_health", "medium", 97),
      Evaluation("vm-1", "mem", "vm_resource", "low", 85) }

\* The breaches while viewers are watched: one of each severity.
ViewedEvaluations ==
    Evaluations \cup {Evaluation("vm-2", "disk", "vm_resource", "medium", 88)}

\* The breaches that notify: one high, one medium.
NotifiedEvaluations ==
    { Evaluation("node-a", "cpu", "node_health", "high", 95),
      Evaluation("vm-2", "disk", "vm_resource", "medium", 88) }

AlertIds == 1 .. MaxAlerts

Add(bag, e) == bag (+) SetToBag({e})
Remove(bag, e) == bag (-) SetToBag({e})

----------------------------------------------------------------------------
(* Alert state machine (specification, section 4.1)                        *)

\* The record create inserts: status active, triggered_at the creation time
\* (a logical clock: rows are created in id order), title and message the
\* description of the breach that created it.
NewAlert(id, ev) ==
    [id |-> id, severity |-> ev.severity, status |-> "active",
     category |-> ev.category, resource_name |-> ev.resource_name,
     metric_name |-> ev.metric_name, current_value |-> ev.current_value,
     title |-> <<ev.severity, ev.resource_name>>,
     message |-> <<ev.metric_name, ev.current_value>>,
     triggered_at |-> id]

SameTuple(a, ev) ==
    /\ a.resource_name = ev.resource_name
    /\ a.metric_name = ev.metric_name
    /\ a.category = ev.category

\* The open alerts of the evaluation's (resource, metric, category) tuple.
OpenFor(t, ev) ==
    {i \in DOMAIN t : t[i].status \in OpenStatuses /\ SameTuple(t[i], ev)}

InsertEvent(a) == [eventType |-> "INSERT", new |-> a]
UpdateEvent(a) == [eventType |-> "UPDATE", new |-> a]

\* Faulty variant of create: every breach inserts a row.
create_AlwaysInserts(t, ev) ==
    LET a == NewAlert(Len(t) + 1, ev)
    IN  [table |-> Append(t, a), event |-> InsertEvent(a)]

\* create(evaluation): a breach on a tuple with an open alert refreshes
\* current_value on that record; otherwise a new active row is inserted.
\* The result is the new table and the change event.
create(t, ev) ==
    IF OpenFor(t, ev) # {}
    THEN LET i == CHOOSE j \in OpenFor(t, ev) : TRUE
             a == [t[i] EXCEPT !.current_value = ev.current_value]
         IN  [table |-> [t EXCEPT ![i] = a], event |-> UpdateEvent(a)]
    ELSE LET a == NewAlert(Len(t) + 1, ev)
         IN  [table |-> Append(t, a), event |-> InsertEvent(a)]

Operations == {"acknowledge", "resolve", "autoResolve"}

\* Faulty variants of ValidFrom: the current status is not checked; an acknowledge
\* is accepted from every open status.
ValidFrom_Unchecked(op) == Statuses

ValidFrom_AckFromOpen(op) == OpenStatuses

\* The statuses an operation is valid from, and the status it moves to.
ValidFrom(op) ==
    IF op = "acknowledge" THEN {"active"} ELSE {"active", "acknowledged"}

Target(op) ==
    CASE op = "acknowledge" -> "acknowledged"
      [] op = "resolve" -> "resolved"
      [] op = "autoResolve" -> "auto_resolved"

\* Faulty variant of Outcome: an unknown id is reported as an invalid transition.
Outcome_NoNotFound(t, op, id) ==
    IF id \notin DOMAIN t THEN "InvalidTransitionError"
    ELSE IF t[id].status \notin ValidFrom(op) THEN "InvalidTransitionError"
    ELSE "ok"

\* The outcome of acknowledge / resolve / autoResolve on alert id.
Outcome(t, op, id) ==
    IF id \notin DOMAIN t THEN "NotFoundError"
    ELSE IF t[id].status \notin ValidFrom(op) THEN "InvalidTransitionError"
    ELSE "ok"

\* Faulty variant of Transition: the status is written before the check.
Transition_WritesAlways(t, op, id) ==
    IF id \in DOMAIN t THEN [t EXCEPT ![id].status = Target(op)] ELSE t

\* Faulty variant of Transition: closing the newest record purges it from
\* the table.
Transition_PurgesClosed(t, op, id) ==
    IF Outcome(t, op, id) = "ok"
    THEN IF Target(op) \in {"resolved", "auto_resolved"} /\ id = Len(t)
         THEN SubSeq(t, 1, Len(t) - 1)
         ELSE [t EXCEPT ![id].status = Target(op)]
    ELSE t

\* Faulty variant of Transition: a successful operation also rewrites the
\* message of the record.
Transition_RewritesMessage(t, op, id) ==
    IF Outcome(t, op, id) = "ok"
    THEN [t EXCEPT ![id].status = Target(op), ![id].message = <<op>>]
    ELSE t

\* The table after the operation: only a successful one writes, and it
\* writes the status alone.
Transition(t, op, id) ==
    IF Outcome(t, op, id) = "ok"
    THEN [t EXCEPT ![id].status = Target(op)]
    ELSE t

----------------------------------------------------------------------------
(* Realtime fan-out (specification, section 4.2): every insert / update is *)
(* broadcast, as the full record, to the channels subscribed at that time. *)

\* A channel receives while its component is subscribed and the connection
\* of the realtime client is up; the feed keeps nothing for later.
PageSubscribed == mounted /\ socket = "joined"
ProvSubscribed == user # "none" /\ socket = "joined"

CanEmit ==
    /\ PageSubscribed => Len(alerts_changes) < MaxQueue
    /\ ProvSubscribed => Len(alerts_channel) < MaxQueue

Emit(event) ==
    /\ alerts_changes' =
          IF PageSubscribed THEN Append(alerts_changes, event) ELSE alerts_changes
    /\ alerts_channel' =
          IF ProvSubscribed THEN Append(alerts_channel, event) ELSE alerts_channel
    /\ UNCHANGED <<redelivered, socket>>

----------------------------------------------------------------------------
(* Backend operations as steps *)

\* The evaluator reports a breach (the collection holds at most limit rows).
Create(ev, limit) ==
    /\ OpenFor(table, ev) = {} => Len(table) < limit
    /\ CanEmit
    /\ table' = create(table, ev).table
    /\ Emit(create(table, ev).event)
    /\ UNCHANGED <<viewVars, calls, pageVars, provVars>>

\* The requests the viewer's actions send (AlertProvider).
acknowledgeAlert(alertId) ==
    [who |-> "viewer", op |-> "acknowledge", id |-> alertId, res |-> "pending"]

\* Faulty variant of resolveAlert: the viewer's button posts an autoResolve.
resolveAlert_AutoResolve(alertId) ==
    [who |-> "viewer", op |-> "autoResolve", id |-> alertId, res |-> "pending"]

resolveAlert(alertId) ==
    [who |-> "viewer", op |-> "resolve", id |-> alertId, res |-> "pending"]

\* The evaluator's call when the breach condition has cleared.
autoResolve(alertId) ==
    [who |-> "system", op |-> "autoResolve", id |-> alertId, res |-> "pending"]

\* A collaborator invokes an operation: the request is in flight.
Invoke(call) ==
    /\ BagCardinality(calls) < MaxCalls
    /\ calls' = Add(calls, call)
    /\ UNCHANGED <<viewVars, table, feedVars, pageVars, provVars>>

\* The ids requests name: those of the collection and the next, unknown one.
RequestIds == {id \in AlertIds : id <= Len(table) + 1}

ViewerAcknowledge == \E id \in RequestIds : Invoke(acknowledgeAlert(id))
ViewerResolve == \E id \in RequestIds : Invoke(resolveAlert(id))
SystemAutoResolve == \E id \in RequestIds : Invoke(autoResolve(id))

\* The backend accepts one request in flight: it is answered, and a
\* successful one writes the table and emits the update event.
Accept(call) ==
    /\ BagIn(call, calls)
    /\ call.res = "pending"
    /\ LET res == Outcome(table, call.op, call.id)
       IN  /\ calls' = Add(Remove(calls, call), [call EXCEPT !.res = res])
           /\ table' = Transition(table, call.op, call.id)
           /\ IF res = "ok"
              THEN CanEmit /\ Emit(UpdateEvent(table'[call.id]))
              ELSE UNCHANGED feedVars
    /\ UNCHANGED <<viewVars, pageVars, provVars>>

AcceptCall == \E call \in BagToSet(calls) : Accept(call)

\* The caller has seen the answer: the request is over.
Return(call) ==
    /\ BagIn(call, calls)
    /\ call.res # "pending"
    /\ calls' = Remove(calls, call)
    /\ UNCHANGED <<viewVars, table, feedVars, pageVars, provVars>>

ReturnCall == \E call \in BagToSet(calls) : Return(call)

CreateAlert == \E ev \in Evaluations : Create(ev, MaxAlerts)

CreateBreach == \E ev \in Breaches : Create(ev, MaxAlerts)

\* A first breach of a tuple, while viewers are watching.
CreateNotified ==
    \E ev \in NotifiedEvaluations :
        OpenFor(table, ev) = {} /\ Create(ev, MaxViewed)

\* The same, while viewers are watching.
CreateViewed == \E ev \in ViewedEvaluations : Create(ev, MaxViewed)

----------------------------------------------------------------------------
(* Initial states *)

ZeroStats == [total_active |-> 0, by_severity |-> [low |-> 0, medium |-> 0, high |-> 0]]
DefaultFilters ==
    [status |-> "active", severity |-> "ALL", category |-> "ALL",
     resource_name |-> "", startDate |-> 0, endDate |-> 0]
ZeroAlertStats ==
    [total_active |-> 0, total_acknowledged |-> 0, total_resolved |-> 0,
     by_severity |-> [low |-> 0, medium |-> 0, high |-> 0]]

InitBackend ==
    /\ table = <<>>
    /\ calls = EmptyBag
    /\ alerts_changes = <<>>
    /\ alerts_channel = <<>>
    /\ redelivered = 0
    /\ socket = "joined"

\* No page mounted.
InitNoPage ==
    /\ mounted = FALSE
    /\ alerts = <<>>
    /\ stats = ZeroStats
    /\ filters = DefaultFilters
    /\ page = 0
    /\ hasMore = TRUE
    /\ loading = TRUE
    /\ error = ""
    /\ statsFetches = EmptyBag
    /\ alertsFetches = EmptyBag
    /\ statsErrors = FALSE
    /\ toasts = EmptyBag

\* Nobody signed in: the AlertProvider is idle.
InitNoUser ==
    /\ user = "none"
    /\ provAlerts = <<>>
    /\ alertStats = ZeroAlertStats
    /\ provLoading = FALSE
    /\ provFetches = EmptyBag
    /\ provStatsFetches = EmptyBag
    /\ provToasts = EmptyBag

\* The other views of the application are not open.
InitIdle ==
    /\ system_logs = <<>>
    /\ logsView = <<>>
    /\ authView = <<>>
    /\ homeView = <<>>
    /\ dashView = <<>>
    /\ localAuth = <<>>
    /\ exportView = <<>>
    /\ roleView = <<>>

----------------------------------------------------------------------------
(* Alerts page (Logs.jsx, component Alerts)                                *)

\* String.prototype.toLowerCase on the strings of the model.
toLowerCase(str) ==
    CASE str = "NODE" -> "node"
      [] str = "VM" -> "vm"
      [] str = "10023@SIIT.TU.AC.TH" -> "10023@siit.tu.ac.th"
      [] str = "6522770001@G.SIIT.TU.AC.TH" -> "6522770001@g.siit.tu.ac.th"
      [] OTHER -> str

\* String.prototype.includes on the (lower-cased) strings of the model.
includes(str, sub) ==
    \/ sub = ""
    \/ str = sub
    \/ <<str, sub>> \in {<<"node-a", "node">>, <<"vm-1", "vm">>, <<"vm-2", "vm">>}

Reverse(seq) == [i \in 1 .. Len(seq) |-> seq[Len(seq) + 1 - i]]

\* The rows of the query fetchAlerts builds: the filters of the closure,
\* newest first.  Dates are days; 0 is the empty date input.
QueryMatches(f, a) ==
    /\ f.status # "ALL" => a.status = f.status
    /\ f.severity # "ALL" => a.severity = f.severity
    /\ f.category # "ALL" => a.category = f.category
    /\ f.resource_name # "" =>
          includes(toLowerCase(a.resource_name), toLowerCase(f.resource_name))
    /\ f.startDate # 0 => a.triggered_at >= f.startDate
    /\ f.endDate # 0 => a.triggered_at <= f.endDate

Min(a, b) == IF a <= b THEN a ELSE b

\* .order('triggered_at', { ascending: false }).range(from, to)
Query(t, f, from, to) ==
    LET rows == SelectSeq(Reverse(t), LAMBDA a : QueryMatches(f, a))
    IN  SubSeq(rows, from + 1, Min(to + 1, Len(rows)))

\* The stats fetchStats computes from the rows of select('severity, status').
CountWhere(t, P(_)) == Cardinality({i \in DOMAIN t : P(t[i])})

ComputeStats(data) ==
    [total_active |->
        CountWhere(data, LAMBDA a : toLowerCase(a.status) = "active"),
     by_severity |->
        [sev \in {"low", "medium", "high"} |->
            CountWhere(data, LAMBDA a : toLowerCase(a.severity) = sev)]]

\* fetchStats(): the request leaves; the response is not there yet.
SentStats == [phase |-> "sent", data |-> ZeroStats]

\* fetchAlerts(reset): setLoading(true), setError(''), and the query leaves
\* with the page and the filters of the render that called it.
SentAlerts(reset) ==
    [phase |-> "sent", reset |-> reset,
     from |-> (IF reset THEN 0 ELSE page) * PAGE_SIZE,
     filters |-> filters, data |-> <<>>]

\* matchesFilters of the INSERT handler.
matchesFilters(f, newAlert) ==
    /\ (f.status = "ALL" \/ newAlert.status = f.status)
    /\ (f.severity = "ALL" \/ newAlert.severity = f.severity)
    /\ (f.category = "ALL" \/ newAlert.category = f.category)
    /\ (f.resource_name = ""
          \/ includes(toLowerCase(newAlert.resource_name),
                      toLowerCase(f.resource_name)))

\* A toast on screen.  autoClose 0 stands for autoClose: false.
Toast(kind, alert, autoClose) ==
    [kind |-> kind, id |-> alert.id, severity |-> alert.severity,
     autoClose |-> autoClose]

\* Faulty variant of showAlertToast: the toast of a high-severity alert is
\* on the timer of the medium one.
showAlertToast_HighTimed(ts, alert) ==
    LET severity == toLowerCase(alert.severity)
    IN  IF severity # "medium" /\ severity # "high" THEN ts
        ELSE IF severity = "high" THEN Add(ts, Toast("error", alert, 8000))
        ELSE Add(ts, Toast("warning", alert, 8000))

\* showAlertToast of the Alerts page: the toasts on screen after the call.
showAlertToast(ts, alert) ==
    LET severity == toLowerCase(alert.severity)
    IN  IF severity # "medium" /\ severity # "high" THEN ts
        ELSE IF severity = "high" THEN Add(ts, Toast("error", alert, 0))
        ELSE Add(ts, Toast("warning", alert, 8000))

\* Faulty variant of PrependIfMatch: the record goes to the end of the list.
PrependIfMatch_Appends(prev, f, newAlert) ==
    IF matchesFilters(f, newAlert) THEN Append(prev, newAlert) ELSE prev

\* setAlerts(prev => [newAlert, ...prev]) when the record matches.
PrependIfMatch(prev, f, newAlert) ==
    IF matchesFilters(f, newAlert) THEN <<newAlert>> \o prev ELSE prev

\* Faulty variant of ApplyUpdate: the updated record is put in front as well.
ApplyUpdate_Prepends(prev, updatedAlert) ==
    <<updatedAlert>> \o
    [i \in 1 .. Len(prev) |->
        IF prev[i].id = updatedAlert.id THEN updatedAlert ELSE prev[i]]

\* setAlerts(prev => prev.map(alert => alert.id === updated.id ? updated : alert))
ApplyUpdate(prev, updatedAlert) ==
    [i \in 1 .. Len(prev) |->
        IF prev[i].id = updatedAlert.id THEN updatedAlert ELSE prev[i]]

\* The feed hands the head of a channel to its handler; it may deliver the
\* same event again (keep).
Deliver(queue, keep) ==
    /\ queue # <<>>
    /\ keep => redelivered < MaxRedeliver
    /\ redelivered' = IF keep THEN redelivered + 1 ELSE redelivered
    /\ UNCHANGED socket

\* Faulty variant of PageInsert: fetchStats() only when the record matches.
PageInsert_StatsOnMatch(keep) ==
    /\ mounted
    /\ Deliver(alerts_changes, keep)
    /\ Head(alerts_changes).eventType = "INSERT"
    /\ BagCardinality(statsFetches) < MaxInflight
    /\ LET newAlert == Head(alerts_changes).new
       IN  /\ toasts' = showAlertToast(toasts, newAlert)
           /\ alerts' = PrependIfMatch(alerts, filters, newAlert)
           /\ statsFetches' =
                 IF matchesFilters(filters, newAlert)
                 THEN Add(statsFetches, SentStats) ELSE statsFetches
    /\ alerts_changes' = IF keep THEN alerts_changes ELSE Tail(alerts_changes)
    /\ UNCHANGED <<viewVars, backendVars, alerts_channel, provVars, mounted, stats, filters,
                   page, hasMore, loading, error, alertsFetches, statsErrors>>

\* INSERT handler of the page: toast, prepend if the filters match, fetchStats.
PageInsert(keep) ==
    /\ mounted
    /\ Deliver(alerts_changes, keep)
    /\ Head(alerts_changes).eventType = "INSERT"
    /\ BagCardinality(statsFetches) < MaxInflight
    /\ LET newAlert == Head(alerts_changes).new
       IN  /\ toasts' = showAlertToast(toasts, newAlert)
           /\ alerts' = PrependIfMatch(alerts, filters, newAlert)
           /\ statsFetches' = Add(statsFetches, SentStats)
    /\ alerts_changes' = IF keep THEN alerts_changes ELSE Tail(alerts_changes)
    /\ UNCHANGED <<viewVars, backendVars, alerts_channel, provVars, mounted, stats, filters,
                   page, hasMore, loading, error, alertsFetches, statsErrors>>

\* UPDATE handler of the page: overwrite by id, fetchStats.
PageUpdate(keep) ==
    /\ mounted
    /\ Deliver(alerts_changes, keep)
    /\ Head(alerts_changes).eventType = "UPDATE"
    /\ BagCardinality(statsFetches) < MaxInflight
    /\ alerts' = ApplyUpdate(alerts, Head(alerts_changes).new)
    /\ statsFetches' = Add(statsFetches, SentStats)
    /\ alerts_changes' = IF keep THEN alerts_changes ELSE Tail(alerts_changes)
    /\ UNCHANGED <<viewVars, backendVars, alerts_channel, provVars, mounted, stats, filters,
                   page, hasMore, loading, error, alertsFetches, statsErrors, toasts>>

\* Faulty variant of ServeStats: the rows counted are those of the filtered
\* page.
ServeStats_Filtered ==
    /\ BagIn(SentStats, statsFetches)
    /\ statsFetches' =
          Add(Remove(statsFetches, SentStats),
              [phase |-> "answered",
               data |-> ComputeStats(Query(table, filters, page * PAGE_SIZE,
                                           page * PAGE_SIZE + PAGE_SIZE - 1))])
    /\ UNCHANGED <<viewVars, backendVars, feedVars, provVars, mounted, alerts, stats, filters,
                   page, hasMore, loading, error, alertsFetches, statsErrors, toasts>>

\* The store answers a stats request with the rows it holds at that moment.
ServeStats ==
    /\ BagIn(SentStats, statsFetches)
    /\ statsFetches' =
          Add(Remove(statsFetches, SentStats),
              [phase |-> "answered", data |-> ComputeStats(table)])
    /\ UNCHANGED <<viewVars, backendVars, feedVars, provVars, mounted, alerts, stats, filters,
                   page, hasMore, loading, error, alertsFetches, statsErrors, toasts>>

\* A stats response reaches the page: setStats.
CompleteStats ==
    \E f \in BagToSet(statsFetches) :
        /\ f.phase = "answered"
        /\ stats' = f.data
        /\ statsFetches' = Remove(statsFetches, f)
        /\ UNCHANGED <<viewVars, backendVars, feedVars, provVars, mounted, alerts, filters,
                       page, hasMore, loading, error, alertsFetches, statsErrors,
                       toasts>>

\* A stats request fails (fetchError or a network error): console.error only.
FailStats ==
    \E f \in BagToSet(statsFetches) :
        /\ statsErrors' = TRUE
        /\ statsFetches' = Remove(statsFetches, f)
        /\ UNCHANGED <<viewVars, backendVars, feedVars, provVars, mounted, alerts, stats,
                       filters, page, hasMore, loading, error, alertsFetches, toasts>>

\* The store answers a list request with the matching rows of that moment.
ServeAlerts ==
    \E f \in BagToSet(alertsFetches) :
        /\ f.phase = "sent"
        /\ alertsFetches' =
              Add(Remove(alertsFetches, f),
                  [f EXCEPT !.phase = "answered",
                            !.data = Query(table, f.filters, f.from,
                                           f.from + PAGE_SIZE - 1)])
        /\ UNCHANGED <<viewVars, backendVars, feedVars, provVars, mounted, alerts, stats,
                       filters, page, hasMore, loading, error, statsFetches,
                       statsErrors, toasts>>

\* A list response reaches the page.
CompleteAlerts ==
    \E f \in BagToSet(alertsFetches) :
        /\ f.phase = "answered"
        /\ alerts' = IF f.reset THEN f.data ELSE alerts \o f.data
        /\ page' = IF f.reset THEN 0 ELSE page
        /\ hasMore' = (Len(f.data) = PAGE_SIZE)
        /\ loading' = FALSE
        /\ alertsFetches' = Remove(alertsFetches, f)
        /\ UNCHANGED <<viewVars, backendVars, feedVars, provVars, mounted, stats, filters,
                       error, statsFetches, statsErrors, toasts>>

\* A list request fails: setError(err.message), setLoading(false).
FailAlerts ==
    \E f \in BagToSet(alertsFetches) :
        /\ error' = "fetch failed"
        /\ loading' = FALSE
        /\ alertsFetches' = Remove(alertsFetches, f)
        /\ UNCHANGED <<viewVars, backendVars, feedVars, provVars, mounted, alerts, stats,
                       filters, page, hasMore, statsFetches, statsErrors, toasts>>

\* The values the viewer picks in the filter bar.
FilterChoices == {<<"status", "ALL">>, <<"status", "active">>}

\* handleFilterChange(key, value), and the two effects on [filters] it
\* re-runs: fetchAlerts(true) and fetchStats(); the channel is removed and
\* subscribed again, so the events queued on the old one are not handled.
handleFilterChange(key, value) ==
    /\ mounted
    /\ filters[key] # value
    /\ BagCardinality(statsFetches) < MaxInflight
    /\ BagCardinality(alertsFetches) < MaxInflight
    /\ filters' = [filters EXCEPT ![key] = value]
    /\ loading' = TRUE
    /\ error' = ""
    /\ alertsFetches' =
          Add(alertsFetches, [SentAlerts(TRUE) EXCEPT !.filters = filters'])
    /\ statsFetches' = Add(statsFetches, SentStats)
    /\ alerts_changes' = <<>>
    /\ UNCHANGED <<viewVars, backendVars, alerts_channel, redelivered, socket, provVars,
                   mounted, alerts, stats, page, hasMore, statsErrors, toasts>>

FilterChange == \E c \in FilterChoices : handleFilterChange(c[1], c[2])

\* The viewer clicks a toast (closeOnClick), or its autoClose timer fires.
DismissToast ==
    \E t \in BagToSet(toasts) :
        /\ toasts' = Remove(toasts, t)
        /\ UNCHANGED <<viewVars, backendVars, feedVars, provVars, mounted, alerts, stats,
                       filters, page, hasMore, loading, error, statsFetches,
                       alertsFetches, statsErrors>>

AutoCloseToast ==
    \E t \in BagToSet(toasts) :
        /\ t.autoClose # 0
        /\ toasts' = Remove(toasts, t)
        /\ UNCHANGED <<viewVars, backendVars, feedVars, provVars, mounted, alerts, stats,
                       filters, page, hasMore, loading, error, statsFetches,
                       alertsFetches, statsErrors>>

\* Another collaborator's transition, seen from a viewer: one atomic step.
Operate(op, id) ==
    /\ Outcome(table, op, id) = "ok"
    /\ CanEmit
    /\ table' = Transition(table, op, id)
    /\ Emit(UpdateEvent(table'[id]))
    /\ UNCHANGED <<viewVars, calls, pageVars, provVars>>

OperateAlert == \E op \in Operations, id \in AlertIds : Operate(op, id)

\* The page right after mount: both effects have run.
InitPage ==
    /\ mounted = TRUE
    /\ alerts = <<>>
    /\ stats = ZeroStats
    /\ filters = DefaultFilters
    /\ page = 0
    /\ hasMore = TRUE
    /\ loading = TRUE
    /\ error = ""
    /\ statsFetches = SetToBag({SentStats})
    /\ alertsFetches =
          SetToBag({[phase |-> "sent", reset |-> TRUE, from |-> 0,
                     filters |-> DefaultFilters, data |-> <<>>]})
    /\ statsErrors = FALSE
    /\ toasts = EmptyBag

PageReceives == \E keep \in BOOLEAN : PageInsert(keep) \/ PageUpdate(keep)

----------------------------------------------------------------------------
(* AlertProvider (READme.md, lines 51-310)                                 *)

\* GET /api/alerts/stats/summary: the counts over the whole collection.
Summary(t) ==
    [total_active |-> CountWhere(t, LAMBDA a : a.status = "active"),
     total_acknowledged |-> CountWhere(t, LAMBDA a : a.status = "acknowledged"),
     total_resolved |-> CountWhere(t, LAMBDA a : a.status = "resolved"),
     by_severity |->
        [sev \in {"low", "medium", "high"} |->
            CountWhere(t, LAMBDA a : a.severity = sev)]]

\* GET /api/alerts?status=...&limit=50: the matching rows, newest first.
ListAlerts(t, status, limit) ==
    LET rows == SelectSeq(Reverse(t), LAMBDA a : a.status = status)
    IN  SubSeq(rows, 1, Min(limit, Len(rows)))

SentProvStats == [phase |-> "sent", data |-> ZeroAlertStats]
SentProvAlerts == [phase |-> "sent", status |-> "active", data |-> <<>>]

\* showAlertToast of the AlertProvider: the toasts on screen after the call.
provShowAlertToast(ts, alert) ==
    IF alert.severity = "high" THEN Add(ts, Toast("error", alert, 0))
    ELSE IF alert.severity = "medium" THEN Add(ts, Toast("warning", alert, 8000))
    ELSE Add(ts, Toast("info", alert, 5000))

\* setAlerts(prev => [newAlert, ...prev])
Prepend(prev, newAlert) == <<newAlert>> \o prev

\* INSERT handler of the provider: toast, prepend, fetchAlertStats.
ProvInsert(keep) ==
    /\ user # "none"
    /\ Deliver(alerts_channel, keep)
    /\ Head(alerts_channel).eventType = "INSERT"
    /\ BagCardinality(provStatsFetches) < MaxInflight
    /\ LET newAlert == Head(alerts_channel).new
       IN  /\ provToasts' = provShowAlertToast(provToasts, newAlert)
           /\ provAlerts' = Prepend(provAlerts, newAlert)
           /\ provStatsFetches' = Add(provStatsFetches, SentProvStats)
    /\ alerts_channel' = IF keep THEN alerts_channel ELSE Tail(alerts_channel)
    /\ UNCHANGED <<viewVars, backendVars, alerts_changes, pageVars, user, alertStats,
                   provLoading, provFetches>>

\* UPDATE handler of the provider: overwrite by id, fetchAlertStats.
ProvUpdate(keep) ==
    /\ user # "none"
    /\ Deliver(alerts_channel, keep)
    /\ Head(alerts_channel).eventType = "UPDATE"
    /\ BagCardinality(provStatsFetches) < MaxInflight
    /\ provAlerts' = ApplyUpdate(provAlerts, Head(alerts_channel).new)
    /\ provStatsFetches' = Add(provStatsFetches, SentProvStats)
    /\ alerts_channel' = IF keep THEN alerts_channel ELSE Tail(alerts_channel)
    /\ UNCHANGED <<viewVars, backendVars, alerts_changes, pageVars, user, alertStats,
                   provLoading, provFetches, provToasts>>

ProvReceives == \E keep \in BOOLEAN : ProvInsert(keep) \/ ProvUpdate(keep)

\* The backend answers the provider's stats request.
ServeProvStats ==
    /\ BagIn(SentProvStats, provStatsFetches)
    /\ provStatsFetches' =
          Add(Remove(provStatsFetches, SentProvStats),
              [phase |-> "answered", data |-> Summary(table)])
    /\ UNCHANGED <<viewVars, backendVars, feedVars, pageVars, user, provAlerts, alertStats,
                   provLoading, provFetches, provToasts>>

\* response.ok: setAlertStats(data).
CompleteProvStats ==
    \E f \in BagToSet(provStatsFetches) :
        /\ f.phase = "answered"
        /\ alertStats' = f.data
        /\ provStatsFetches' = Remove(provStatsFetches, f)
        /\ UNCHANGED <<viewVars, backendVars, feedVars, pageVars, user, provAlerts,
                       provLoading, provFetches, provToasts>>

\* The backend answers the provider's list request.
ServeProvAlerts ==
    \E f \in BagToSet(provFetches) :
        /\ f.phase = "sent"
        /\ provFetches' =
              Add(Remove(provFetches, f),
                  [f EXCEPT !.phase = "answered",
                            !.data = ListAlerts(table, f.status, 50)])
        /\ UNCHANGED <<viewVars, backendVars, feedVars, pageVars, user, provAlerts,
                       alertStats, provLoading, provStatsFetches, provToasts>>

\* The list request acknowledgeAlert / resolveAlert await after a success
\* response; fetchAlertStats() follows when it is over.
RefetchAlerts ==
    [phase |-> "sent", status |-> "active", data |-> <<>>,
     next |-> "fetchAlertStats"]

\* The list request was awaited by acknowledgeAlert / resolveAlert.
Awaited(f) == "next" \in DOMAIN f

\* response.ok: setAlerts(data.alerts || []), then setLoading(false); the
\* action that awaited the request goes on to fetchAlertStats().
CompleteProvAlerts ==
    \E f \in BagToSet(provFetches) :
        /\ f.phase = "answered"
        /\ provAlerts' = f.data
        /\ provLoading' = FALSE
        /\ provFetches' = Remove(provFetches, f)
        /\ provStatsFetches' =
              IF Awaited(f) THEN Add(provStatsFetches, SentProvStats)
              ELSE provStatsFetches
        /\ UNCHANGED <<viewVars, backendVars, feedVars, pageVars, user, alertStats,
                       provToasts>>

\* The viewer clicks a provider toast, or its autoClose timer fires.
ProvDismissToast ==
    \E t \in BagToSet(provToasts) :
        /\ provToasts' = Remove(provToasts, t)
        /\ UNCHANGED <<viewVars, backendVars, feedVars, pageVars, user, provAlerts,
                       alertStats, provLoading, provFetches, provStatsFetches>>

ProvAutoCloseToast ==
    \E t \in BagToSet(provToasts) :
        /\ t.autoClose # 0
        /\ provToasts' = Remove(provToasts, t)
        /\ UNCHANGED <<viewVars, backendVars, feedVars, pageVars, user, provAlerts,
                       alertStats, provLoading, provFetches, provStatsFetches>>

\* The provider right after sign-in: the effect on [user] has run.
InitProvider ==
    /\ user = "viewer"
    /\ provAlerts = <<>>
    /\ alertStats = ZeroAlertStats
    /\ provLoading = TRUE
    /\ provFetches = SetToBag({SentProvAlerts})
    /\ provStatsFetches = SetToBag({SentProvStats})
    /\ provToasts = EmptyBag

----------------------------------------------------------------------------
(* The Alerts page and its list: the stats requests are answered at once,  *)
(* the list requests and the events take their time.                       *)

\* No stats request of the page is in flight.
StatsQuiet == statsFetches = EmptyBag

NextMirror ==
    \/ ServeStats
    \/ CompleteStats
    \/ StatsQuiet /\ CreateViewed
    \/ StatsQuiet /\ OperateAlert
    \/ StatsQuiet /\ PageReceives
    \/ StatsQuiet /\ ServeAlerts
    \/ StatsQuiet /\ CompleteAlerts
    \/ StatsQuiet /\ FailAlerts
    \/ StatsQuiet /\ FilterChange

InitMirror == InitBackend /\ InitIdle /\ InitPage /\ InitNoUser

SpecMirror == InitMirror /\ [][NextMirror]_vars

(* The Alerts page and its stats: the list requests are answered at once,  *)
(* the stats requests and the events take their time.                      *)

\* No list request of the page is in flight.
ListQuiet == alertsFetches = EmptyBag

NextStats ==
    \/ ServeAlerts
    \/ CompleteAlerts
    \/ ListQuiet /\ CreateViewed
    \/ ListQuiet /\ OperateAlert
    \/ ListQuiet /\ PageReceives
    \/ ListQuiet /\ ServeStats
    \/ ListQuiet /\ CompleteStats
    \/ ListQuiet /\ FailStats

InitStats == InitBackend /\ InitIdle /\ InitPage /\ InitNoUser

SpecStats == InitStats /\ [][NextStats]_vars

(* Both subscribers on the feed: every request is answered at once, the    *)
(* events take their time and the toasts stay until closed.                *)

AllQuiet ==
    /\ statsFetches = EmptyBag
    /\ alertsFetches = EmptyBag
    /\ provFetches = EmptyBag
    /\ provStatsFetches = EmptyBag

NextFeed ==
    \/ ServeStats
    \/ CompleteStats
    \/ ServeAlerts
    \/ CompleteAlerts
    \/ ServeProvStats
    \/ CompleteProvStats
    \/ ServeProvAlerts
    \/ CompleteProvAlerts
    \/ AllQuiet /\ CreateViewed
    \/ AllQuiet /\ OperateAlert
    \/ AllQuiet /\ PageReceives
    \/ AllQuiet /\ ProvReceives
    \/ AllQuiet /\ DismissToast
    \/ AllQuiet /\ AutoCloseToast
    \/ AllQuiet /\ ProvDismissToast
    \/ AllQuiet /\ ProvAutoCloseToast

InitFeed == InitBackend /\ InitIdle /\ InitPage /\ InitProvider

SpecFeed == InitFeed /\ [][NextFeed]_vars

----------------------------------------------------------------------------
(* The lifecycle alone: the evaluator and the viewers' requests            *)

InitLifecycle == InitBackend /\ InitIdle /\ InitNoPage /\ InitNoUser

NextLifecycle ==
    \/ CreateAlert
    \/ ViewerAcknowledge
    \/ ViewerResolve
    \/ SystemAutoResolve
    \/ AcceptCall
    \/ ReturnCall

SpecLifecycle == InitLifecycle /\ [][NextLifecycle]_vars

----------------------------------------------------------------------------
(* The evaluator: breaches and auto-resolution, requests one at a time      *)

CallsQuiet == calls = EmptyBag

InitEvaluator == InitBackend /\ InitIdle /\ InitNoPage /\ InitNoUser

NextEvaluator ==
    \/ CreateBreach
    \/ CallsQuiet /\ ViewerAcknowledge
    \/ CallsQuiet /\ SystemAutoResolve
    \/ AcceptCall
    \/ ReturnCall

SpecEvaluator == InitEvaluator /\ [][NextEvaluator]_vars

----------------------------------------------------------------------------
(* Properties of the state machine                                         *)

Results == {"ok", "NotFoundError", "InvalidTransitionError"}
Answered == {c \in BagToSet(calls) : c.res # "pending"}
Known(id) == id \in DOMAIN table

\* This step is the backend answering request c with r.
Accepts(c, r) ==
    /\ BagIn(c, calls)
    /\ c.res = "pending"
    /\ calls' = Add(Remove(calls, c), [c EXCEPT !.res = r])

\* Two requests of the bag were in flight at the same time: two different
\* records, or two copies of one.
Concurrent(c, d) == c # d \/ CopiesIn(c, calls) >= 2

\* The number of answered requests of kind ops on id that succeeded.
Successes(ops, id) ==
    BagCardinality([c \in {d \in Answered : d.op \in ops /\ d.id = id /\ d.res = "ok"}
                      |-> CopiesIn(c, calls)])

Closing == {"resolve", "autoResolve"}

C3_AcknowledgeClosed ==
    [][\A c \in BagToSet(calls), r \in Results :
          (/\ c.op = "acknowledge"
           /\ Accepts(c, r)
           /\ Known(c.id)
           /\ table[c.id].status \in {"resolved", "auto_resolved"})
          => (r = "InvalidTransitionError" /\ table' = table)]_vars

\* C3 witness: an acknowledge was refused on an alert that a resolve had
\* closed before.
C3_Witness ==
    \E c \in Answered, d \in Answered :
        /\ c.id = d.id /\ Known(c.id)
        /\ c.op = "acknowledge" /\ c.res = "InvalidTransitionError"
        /\ d.op = "resolve" /\ d.res = "ok"
        /\ table[c.id].status = "resolved"

\* C6: acknowledge succeeds exactly from active and then the status is
\* acknowledged; an acknowledge of an acknowledged alert fails with
\* InvalidTransitionError and the status stays acknowledged.
C6_Acknowledge ==
    [][\A c \in BagToSet(calls), r \in Results :
          (c.op = "acknowledge" /\ Accepts(c, r) /\ Known(c.id)) =>
            /\ (r = "ok") <=> (table[c.id].status = "active")
            /\ r = "ok" => table'[c.id].status = "acknowledged"
            /\ table[c.id].status = "acknowledged" =>
                  /\ r = "InvalidTransitionError"
                  /\ table'[c.id].status = "acknowledged"]_vars

\* C6 witness: a first acknowledge succeeded, a second one was refused, and
\* the alert is acknowledged.
C6_Witness ==
    \E c \in Answered, d \in Answered :
        /\ c.id = d.id /\ Known(c.id)
        /\ c.op = "acknowledge" /\ c.res = "ok"
        /\ d.op = "acknowledge" /\ d.res = "InvalidTransitionError"
        /\ table[c.id].status = "acknowledged"

\* C7: resolve succeeds exactly from active or acknowledged and then the
\* status is resolved; from resolved / auto_resolved it fails with
\* InvalidTransitionError, for an unknown id with NotFoundError, and a
\* failed resolve leaves the collection unchanged.
C7_Resolve ==
    [][\A c \in BagToSet(calls), r \in Results :
          (c.op = "resolve" /\ Accepts(c, r)) =>
            /\ (r = "ok") <=> (Known(c.id) /\ table[c.id].status \in OpenStatuses)
            /\ r = "ok" => table'[c.id].status = "resolved"
            /\ (Known(c.id) /\ table[c.id].status \in {"resolved", "auto_resolved"})
                  => r = "InvalidTransitionError"
            /\ ~Known(c.id) => r = "NotFoundError"
            /\ r # "ok" => table' = table]_vars

\* C7 witness: a resolve of an unknown id was answered NotFoundError while
\* another resolve closed an alert.
C7_Witness ==
    \E c \in Answered, d \in Answered :
        /\ c.op = "resolve" /\ c.res = "NotFoundError" /\ ~Known(c.id)
        /\ d.op = "resolve" /\ d.res = "ok" /\ table[d.id].status = "resolved"

\* C8: autoResolve succeeds exactly from active or acknowledged and then the
\* status is auto_resolved; only the system sends it: no request of a viewer
\* is an autoResolve, and no viewer request ever writes auto_resolved.
C8_AutoResolve ==
    [][/\ \A c \in BagToSet(calls) : c.op = "autoResolve" => c.who = "system"
       /\ \A c \in BagToSet(calls), r \in Results :
            /\ (c.op = "autoResolve" /\ Accepts(c, r) /\ Known(c.id)) =>
                  /\ (r = "ok") <=> (table[c.id].status \in OpenStatuses)
                  /\ r = "ok" => table'[c.id].status = "auto_resolved"
            /\ (c.who = "viewer" /\ Accepts(c, r) /\ Known(c.id)) =>
                  (table'[c.id].status = "auto_resolved"
                     => table[c.id].status = "auto_resolved")]_vars

\* C8 witness: the evaluator auto-resolved an acknowledged alert.
C8_Witness ==
    \E c \in Answered, d \in Answered :
        /\ c.id = d.id /\ Known(c.id)
        /\ c.op = "acknowledge" /\ c.res = "ok"
        /\ d.op = "autoResolve" /\ d.res = "ok" /\ d.who = "system"
        /\ table[c.id].status = "auto_resolved"

\* No two open alerts share a (resource, metric, category) tuple.
NoDuplicateOpen(t) ==
    \A i \in DOMAIN t, j \in DOMAIN t :
        (i # j /\ t[i].status \in OpenStatuses /\ t[j].status \in OpenStatuses)
          => ~SameTuple(t[i], t[j])

\* C9: at most one open alert per tuple in every state, and a breach on a
\* tuple that has an open alert inserts no row: it changes current_value of
\* the open record and nothing else.
C9_NoDuplicateOpen ==
    [][/\ NoDuplicateOpen(table')
       /\ \A ev \in Breaches :
            (OpenFor(table, ev) # {} /\ calls' = calls
               /\ table' = create(table, ev).table) =>
              /\ Len(table') = Len(table)
              /\ \A i \in OpenFor(table, ev) :
                    table' = [table EXCEPT ![i].current_value = ev.current_value]]_vars

\* C9 witness: a renewed breach has refreshed current_value of the open
\* alert (the record keeps the severity it was created with, high at 95,
\* and now reads 97; it has been acknowledged) and the table still has one
\* row.
C9_Witness ==
    /\ Len(table) = 1
    /\ table[1].severity = "high"
    /\ table[1].current_value = 97
    /\ table[1].status = "acknowledged"

----------------------------------------------------------------------------
(* Properties of the viewers                                               *)

Forward ==
    {<<"active", "acknowledged">>, <<"active", "resolved">>,
     <<"active", "auto_resolved">>, <<"acknowledged", "resolved">>,
     <<"acknowledged", "auto_resolved">>}

MovesForward(old, new) == old = new \/ <<old, new>> \in Forward

\* C1 as stated: in every step each alert of the collection keeps its status
\* or moves it forward (never to active), and so does each entry of the
\* page's list when the UPDATE handler runs.
C1_StatusForward ==
    [][/\ \A id \in DOMAIN table :
            /\ id \in DOMAIN table'
            /\ MovesForward(table[id].status, table'[id].status)
       /\ (\E keep \in BOOLEAN : PageUpdate(keep)) =>
            \A i \in DOMAIN alerts :
                MovesForward(alerts[i].status, alerts'[i].status)]_vars

NoDuplicateIds(list) ==
    \A i \in DOMAIN list, j \in DOMAIN list : list[i].id = list[j].id => i = j

\* C4 as stated: every alert id occurs at most once in the list of the
\* Alerts page and in the list of the AlertProvider, whatever insert events
\* (duplicates included) were handled.
C4_NoDuplicateEntries ==
    NoDuplicateIds(alerts) /\ NoDuplicateIds(provAlerts)

\* C5 as stated: once every event is handled and every stats request has
\* completed (none failed), the displayed total_active is the number of
\* active records of the collection.
C5_TotalActive ==
    (alerts_changes = <<>> /\ statsFetches = EmptyBag /\ ~statsErrors) =>
        stats.total_active = CountWhere(table, LAMBDA a : a.status = "active")

\* C10 as stated: handling the INSERT of a low-severity alert renders no
\* notification on either subscriber, admits the record and starts the
\* refresh of the stats.
C10_LowSuppressed ==
    [][/\ \A keep \in BOOLEAN :
            (PageInsert(keep) /\ Head(alerts_changes).new.severity = "low") =>
                /\ toasts' = toasts
                /\ alerts' = PrependIfMatch(alerts, filters, Head(alerts_changes).new)
                /\ statsFetches' = Add(statsFetches, SentStats)
       /\ \A keep \in BOOLEAN :
            (ProvInsert(keep) /\ Head(alerts_channel).new.severity = "low") =>
                /\ provToasts' = provToasts
                /\ provAlerts' = <<Head(alerts_channel).new>> \o provAlerts
                /\ provStatsFetches' = Add(provStatsFetches, SentProvStats)]_vars

----------------------------------------------------------------------------
(* Notifications: the feed of both subscribers, where every request is     *)
(* answered and every autoClose timer of react-toastify fires, whatever    *)
(* else is going on.  The viewer is free never to click.                   *)

FairToasts ==
    /\ WF_vars(ServeStats) /\ WF_vars(CompleteStats)
    /\ WF_vars(ServeProvStats) /\ WF_vars(CompleteProvStats)
    /\ WF_vars(AutoCloseToast)
    /\ WF_vars(ProvAutoCloseToast)

\* Both subscribers after their first load of the empty collection.
InitToasts ==
    /\ InitBackend /\ InitIdle
    /\ mounted = TRUE
    /\ alerts = <<>>
    /\ stats = ZeroStats
    /\ filters = DefaultFilters
    /\ page = 0
    /\ hasMore = FALSE
    /\ loading = FALSE
    /\ error = ""
    /\ statsFetches = EmptyBag
    /\ alertsFetches = EmptyBag
    /\ statsErrors = FALSE
    /\ toasts = EmptyBag
    /\ user = "viewer"
    /\ provAlerts = <<>>
    /\ alertStats = ZeroAlertStats
    /\ provLoading = FALSE
    /\ provFetches = EmptyBag
    /\ provStatsFetches = EmptyBag
    /\ provToasts = EmptyBag

\* The INSERT events reach the handlers.
PageNotified == \E keep \in BOOLEAN : PageInsert(keep)
ProvNotified == \E keep \in BOOLEAN : ProvInsert(keep)

NextToasts ==
    \/ ServeStats
    \/ CompleteStats
    \/ ServeProvStats
    \/ CompleteProvStats
    \/ AllQuiet /\ CreateNotified
    \/ AllQuiet /\ PageNotified
    \/ AllQuiet /\ ProvNotified
    \/ AllQuiet /\ DismissToast
    \/ AllQuiet /\ ProvDismissToast
    \/ AutoCloseToast
    \/ ProvAutoCloseToast

SpecToasts == InitToasts /\ [][NextToasts]_vars /\ FairToasts

\* The toasts either subscriber can show for the alerts of the model.
ShownToasts ==
    {Toast(k, [id |-> id, severity |-> sev], ac) :
        k \in {"error", "warning", "info"}, id \in 1 .. MaxViewed,
        sev \in Severities, ac \in {0, 5000, 8000}}

\* A toast for alert id of that severity is on screen.
OnScreen(ts, id, sev) == \E t \in BagToSet(ts) : t.id = id /\ t.severity = sev

\* C11: a toast for a high-severity insert leaves the screen only in a step
\* where the viewer dismisses it (no autoClose timer removes it), on the
\* page and on the provider; a toast for a medium-severity insert that is on
\* screen is eventually off screen, with no click of the viewer required.
C11_HighPersistsMediumCloses ==
    /\ [][\A t \in ShownToasts :
            t.severity = "high" =>
              /\ CopiesIn(t, toasts') < CopiesIn(t, toasts) => DismissToast
              /\ CopiesIn(t, provToasts') < CopiesIn(t, provToasts)
                    => ProvDismissToast
              /\ ~(AutoCloseToast /\ toasts' = Remove(toasts, t))
              /\ ~(ProvAutoCloseToast /\ provToasts' = Remove(provToasts, t))]_vars
    /\ \A id \in 1 .. MaxViewed :
          /\ OnScreen(toasts, id, "medium") ~> ~OnScreen(toasts, id, "medium")
          /\ OnScreen(provToasts, id, "medium")
                ~> ~OnScreen(provToasts, id, "medium")

\* C11 witness: the INSERT of a high-severity alert has been handled by both
\* subscribers and its toast, with autoClose false, is on both screens.
C11_Witness ==
    /\ alerts_changes = <<>>
    /\ alerts_channel = <<>>
    /\ \E t \in BagToSet(toasts) : t.severity = "high" /\ t.autoClose = 0
    /\ \E t \in BagToSet(provToasts) : t.severity = "high" /\ t.autoClose = 0

----------------------------------------------------------------------------
(* The realtime handlers of a subscriber after its first load, for a       *)
(* viewer who has set the filter bar in one of a few ways.  Requests are   *)
(* answered before the next event, and an event is handled (once or more)  *)
(* before the collection changes again.                                    *)

\* The filter bars of the model: the default, one severity, one status that
\* no insert has, one resource substring, one end date (the day of the
\* first row; later rows are past it).
FilterBars ==
    { DefaultFilters,
      [DefaultFilters EXCEPT !.severity = "high"],
      [DefaultFilters EXCEPT !.status = "acknowledged"],
      [DefaultFilters EXCEPT !.status = "ALL", !.resource_name = "VM"],
      [DefaultFilters EXCEPT !.endDate = 1] }

\* The Alerts page after its first load of the empty collection.
LoadedPage ==
    /\ mounted = TRUE
    /\ alerts = <<>>
    /\ stats = ZeroStats
    /\ filters \in FilterBars
    /\ page = 0
    /\ hasMore = FALSE
    /\ loading = FALSE
    /\ error = ""
    /\ statsFetches = EmptyBag
    /\ alertsFetches = EmptyBag
    /\ statsErrors = FALSE
    /\ toasts = EmptyBag

\* The AlertProvider after its first load of the empty collection.
LoadedProvider ==
    /\ user = "viewer"
    /\ provAlerts = <<>>
    /\ alertStats = ZeroAlertStats
    /\ provLoading = FALSE
    /\ provFetches = EmptyBag
    /\ provStatsFetches = EmptyBag
    /\ provToasts = EmptyBag

\* One subscriber is on the feed: the Alerts page, or the AlertProvider.
InitHandlers ==
    /\ InitBackend /\ InitIdle
    /\ \/ LoadedPage /\ InitNoUser
       \/ InitNoPage /\ LoadedProvider

\* A breach while the handlers are watched: one of each severity.
HandledEvaluations ==
    { Evaluation("node-a", "cpu", "node_health", "high", 95),
      Evaluation("vm-1", "mem", "vm_resource", "low", 85),
      Evaluation("vm-2", "disk", "vm_resource", "medium", 88) }

CreateHandled == \E ev \in HandledEvaluations : Create(ev, MaxAlerts)

\* Every event of the feed has been handled.
Drained == alerts_changes = <<>> /\ alerts_channel = <<>>

NextHandlers ==
    \/ ServeStats
    \/ CompleteStats
    \/ ServeProvStats
    \/ CompleteProvStats
    \/ AllQuiet /\ Drained /\ CreateHandled
    \/ AllQuiet /\ Drained /\ OperateAlert
    \/ AllQuiet /\ PageReceives
    \/ AllQuiet /\ ProvReceives

SpecHandlers == InitHandlers /\ [][NextHandlers]_vars

----------------------------------------------------------------------------
(* Properties of the realtime handlers                                     *)

CountActive(t) == CountWhere(t, LAMBDA a : a.status = "active")

\* The toast of alert a that stays until dismissed is shown in this step.
ShowsPersistent(ts, tsNext, a) ==
    \E t \in BagToSet(tsNext) :
        /\ t.id = a.id
        /\ t.autoClose = 0
        /\ CopiesIn(t, tsNext) = CopiesIn(t, ts) + 1

Admitted(list, a) == \E i \in DOMAIN list : list[i] = a

\* The query filter of the AlertProvider's list: fetchAlerts('active').
ProviderMatches(a) == a.status = SentProvAlerts.status

\* C13 as stated: after a subscriber handles an INSERT or UPDATE event, the
\* record of that event, if it is in the subscriber's list, satisfies all
\* the filters of the subscriber's query (status, severity, category,
\* resource substring, date range).
C13_AdmittedMatchFilters ==
    [][/\ \A keep \in BOOLEAN :
            (PageInsert(keep) \/ PageUpdate(keep)) =>
               (Admitted(alerts', Head(alerts_changes).new)
                  => QueryMatches(filters, Head(alerts_changes).new))
       /\ \A keep \in BOOLEAN :
            (ProvInsert(keep) \/ ProvUpdate(keep)) =>
               (Admitted(provAlerts', Head(alerts_channel).new)
                  => ProviderMatches(Head(alerts_channel).new))]_vars

----------------------------------------------------------------------------
(* The viewer's actions in the AlertProvider: acknowledgeAlert and         *)
(* resolveAlert from the POST to the refetch (READme.md, lines 127-192).   *)
(* The viewer acts, and the evaluator reports, when the earlier requests   *)
(* and events are over and the toasts are closed.                          *)

\* The toast of an action's outcome (the library's default autoClose).
ActionToast(kind, call) ==
    [kind |-> kind, id |-> call.id, severity |-> "none", autoClose |-> 5000]

\* The network fails the request: fetch throws, whether or not the backend
\* has accepted the request before.
Lose(call) ==
    /\ BagIn(call, calls)
    /\ call.res # "NetworkError"
    /\ calls' = Add(Remove(calls, call), [call EXCEPT !.res = "NetworkError"])
    /\ UNCHANGED <<viewVars, table, feedVars, pageVars, provVars>>

LoseCall == \E call \in BagToSet(calls) : Lose(call)

\* Faulty variant of ProvReturn: the list entry is given the target status
\* whatever the response is.
ProvReturn_Optimistic(call) ==
    /\ BagIn(call, calls)
    /\ call.res # "pending"
    /\ calls' = Remove(calls, call)
    /\ provAlerts' =
          [i \in 1 .. Len(provAlerts) |->
              IF provAlerts[i].id = call.id
              THEN [provAlerts[i] EXCEPT !.status = Target(call.op)]
              ELSE provAlerts[i]]
    /\ provToasts' = Add(provToasts, ActionToast("error", call))
    /\ UNCHANGED <<viewVars, table, feedVars, pageVars, user, alertStats, provLoading,
                   provFetches, provStatsFetches>>

\* Faulty variant of ProvReturn: a response that is not ok is dropped
\* without a notification.
ProvReturn_Silent(call) ==
    /\ BagIn(call, calls)
    /\ call.res # "pending"
    /\ calls' = Remove(calls, call)
    /\ IF call.res = "ok"
       THEN /\ BagCardinality(provFetches) < MaxInflight
            /\ provToasts' = Add(provToasts, ActionToast("success", call))
            /\ provLoading' = TRUE
            /\ provFetches' = Add(provFetches, RefetchAlerts)
       ELSE UNCHANGED <<provToasts, provLoading, provFetches>>
    /\ UNCHANGED <<viewVars, table, feedVars, pageVars, user, provAlerts, alertStats,
                   provStatsFetches>>

\* The value acknowledgeAlert / resolveAlert hands to its caller: true in
\* the response.ok branch, false in the else branch and in the catch.
ActionReturns(res) == res = "ok"

\* The action sees its response.  response.ok: toast.success, then
\* fetchAlerts('active') (setLoading(true), the request leaves) is awaited.
\* Otherwise, or when fetch threw: toast.error, return false.
ProvReturn(call) ==
    /\ BagIn(call, calls)
    /\ call.res # "pending"
    /\ calls' = Remove(calls, call)
    /\ IF call.res = "ok"
       THEN /\ BagCardinality(provFetches) < MaxInflight
            /\ provToasts' = Add(provToasts, ActionToast("success", call))
            /\ provLoading' = TRUE
            /\ provFetches' = Add(provFetches, RefetchAlerts)
       ELSE /\ provToasts' = Add(provToasts, ActionToast("error", call))
            /\ UNCHANGED <<provLoading, provFetches>>
    /\ UNCHANGED <<viewVars, table, feedVars, pageVars, user, provAlerts, alertStats,
                   provStatsFetches>>

ProvReturnCall == \E call \in BagToSet(calls) : ProvReturn(call)

\* The list request fails: a response that is not ok, or an exception
\* (toast.error('Failed to load alerts')); setLoading(false) either way, and
\* the action that awaited it goes on to fetchAlertStats().
FailProvAlerts ==
    \E f \in BagToSet(provFetches), thrown \in BOOLEAN :
        /\ provLoading' = FALSE
        /\ provFetches' = Remove(provFetches, f)
        /\ provToasts' =
              IF thrown
              THEN Add(provToasts, [kind |-> "error", id |-> 0,
                                    severity |-> "none", autoClose |-> 5000])
              ELSE provToasts
        /\ provStatsFetches' =
              IF Awaited(f) THEN Add(provStatsFetches, SentProvStats)
              ELSE provStatsFetches
        /\ UNCHANGED <<viewVars, backendVars, feedVars, pageVars, user, provAlerts,
                       alertStats>>

\* No request of the provider is in flight.
ProvQuiet == provFetches = EmptyBag /\ provStatsFetches = EmptyBag

\* Every request of the provider is over, every event is handled and every
\* response has been seen by the action that waited for it.
Settled ==
    /\ ProvQuiet
    /\ Drained
    /\ \A c \in BagToSet(calls) : c.res = "pending"

\* The viewer has closed the toasts before the next action or breach.
NoToasts == provToasts = EmptyBag

InitActions == InitBackend /\ InitIdle /\ InitNoPage /\ LoadedProvider

NextActions ==
    \/ ServeProvAlerts
    \/ CompleteProvAlerts
    \/ FailProvAlerts
    \/ ServeProvStats
    \/ CompleteProvStats
    \/ Settled /\ NoToasts /\ CallsQuiet /\ CreateNotified
    \/ Settled /\ NoToasts /\ ViewerAcknowledge
    \/ Settled /\ NoToasts /\ ViewerResolve
    \/ Settled /\ AcceptCall
    \/ ProvQuiet /\ LoseCall
    \/ ProvQuiet /\ ProvReturnCall
    \/ ProvQuiet /\ ProvReceives
    \/ ProvQuiet /\ ProvDismissToast

SpecActions == InitActions /\ [][NextActions]_vars

----------------------------------------------------------------------------
(* Properties of the viewer's actions                                      *)

\* The provider's local view of the alerts.
LocalState == <<provAlerts, alertStats>>

\* C14: the step in which acknowledgeAlert / resolveAlert sees a response
\* that is not ok, or a network error, leaves alerts and alertStats as they
\* were and starts no request; sending the POST changes neither; on a
\* success response the list is still unchanged and a refetch is issued, and
\* the list changes only when a list request completes or a realtime event
\* is handled.
C14_FailedCallKeepsState ==
    [][/\ \A call \in BagToSet(calls) :
            (ProvReturn(call) /\ call.res # "ok") =>
                /\ LocalState' = LocalState
                /\ provFetches' = provFetches
                /\ provStatsFetches' = provStatsFetches
       /\ \A call \in BagToSet(calls) :
            (ProvReturn(call) /\ call.res = "ok") =>
                /\ LocalState' = LocalState
                /\ provFetches' = Add(provFetches, RefetchAlerts)
       /\ BagCardinality(calls') > BagCardinality(calls) =>
                LocalState' = LocalState
       /\ provAlerts' # provAlerts => (CompleteProvAlerts \/ ProvReceives)
       /\ alertStats' # alertStats => CompleteProvStats]_vars

\* C14 witness: an acknowledge was accepted by the backend but its response
\* was lost; the action has shown its error toast, and the provider's list
\* still shows the alert as active.
C14_Witness ==
    /\ Len(table) = 1 /\ table[1].status = "acknowledged"
    /\ Len(provAlerts) = 1 /\ provAlerts[1].status = "active"
    /\ calls = EmptyBag
    /\ BagIn(ActionToast("error", acknowledgeAlert(1)), provToasts)

----------------------------------------------------------------------------
(* More properties of the realtime handlers                                *)

Ids(list) == [i \in DOMAIN list |-> list[i].id]

\* The list after is the list before with the entries of the record's id
\* replaced by the record.
OverwrittenById(before, after, updated) ==
    /\ Len(after) = Len(before)
    /\ Ids(after) = Ids(before)
    /\ \A i \in DOMAIN before :
          after[i] = IF before[i].id = updated.id THEN updated ELSE before[i]

\* C15: when a subscriber handles an UPDATE event, its list keeps its
\* length and the order of its ids, the entries with the event's id become
\* the full record of the event and the others are untouched; handling the
\* same event again would give the same list.
C15_UpdateIdempotent ==
    [][/\ \A keep \in BOOLEAN :
            PageUpdate(keep) =>
                /\ OverwrittenById(alerts, alerts', Head(alerts_changes).new)
                /\ ApplyUpdate(alerts', Head(alerts_changes).new) = alerts'
       /\ \A keep \in BOOLEAN :
            ProvUpdate(keep) =>
                /\ OverwrittenById(provAlerts, provAlerts',
                                   Head(alerts_channel).new)
                /\ ApplyUpdate(provAlerts', Head(alerts_channel).new)
                      = provAlerts']_vars

\* C15 witness: the page lists two alerts under the default filters, an
\* UPDATE event was delivered twice (every INSERT matches these filters, so
\* a repeated INSERT would have left a duplicate), and the list still has
\* ids 2, 1 with the updated status in place.
C15_Witness ==
    /\ mounted /\ Drained /\ filters = DefaultFilters
    /\ redelivered = 1
    /\ Ids(alerts) = <<2, 1>>
    /\ alerts[2].status = "acknowledged"
    /\ table[1].status = "acknowledged"

\* C16: every INSERT and every UPDATE event a subscriber handles starts a
\* stats request (fetchStats on the page, fetchAlertStats in the provider),
\* also when the inserted record does not match the filters and the list is
\* left alone.
C16_StatsOnEveryEvent ==
    [][/\ \A keep \in BOOLEAN :
            (PageInsert(keep) \/ PageUpdate(keep)) =>
                statsFetches' = Add(statsFetches, SentStats)
       /\ \A keep \in BOOLEAN :
            (ProvInsert(keep) \/ ProvUpdate(keep)) =>
                provStatsFetches' = Add(provStatsFetches, SentProvStats)]_vars

\* C16 witness: the page filters on severity high; the INSERT of a
\* low-severity alert was handled: the list is still empty and the stats
\* count the alert.
C16_Witness ==
    /\ mounted /\ Drained /\ AllQuiet
    /\ filters.severity = "high"
    /\ alerts = <<>>
    /\ Len(table) = 1 /\ table[1].severity = "low"
    /\ stats.by_severity["low"] = 1
    /\ stats.total_active = 1

\* C17: whatever the filter bar of the page, once its requests are answered
\* and the feed is drained the stats it displays are the counts over the
\* whole collection: total_active over every row, by_severity over every
\* row.  Two pages with different filters facing one collection display the
\* same stats.
C17_StatsOverCollection ==
    (mounted /\ AllQuiet /\ Drained) => stats = ComputeStats(table)

\* C17 witness: the page filters on severity high and lists one of the two
\* alerts of the collection; its stats count both.
C17_Witness ==
    /\ mounted /\ AllQuiet /\ Drained
    /\ filters.severity = "high"
    /\ Len(table) = 2 /\ Len(alerts) = 1
    /\ stats.by_severity["low"] + stats.by_severity["medium"] = 1
    /\ stats.by_severity["high"] = 1
    /\ stats.total_active = 2

----------------------------------------------------------------------------
(* The frame of a transition                                               *)

\* The fields of a record that no lifecycle operation writes.
ImmutableFields ==
    {"id", "severity", "category", "resource_name", "metric_name", "title",
     "message", "triggered_at"}

\* The step applied a transition: the status of some record changed.
Transitioned(i) ==
    /\ i \in DOMAIN table
    /\ i \in DOMAIN table'
    /\ table'[i].status # table[i].status

SameImmutables(a, b) ==
    /\ DOMAIN a = DOMAIN b
    /\ \A f \in ImmutableFields : a[f] = b[f]

\* C18: every transition changes only the status of its alert: the id,
\* severity, category, resource_name, metric_name, title, message and
\* triggered_at of that alert are the same after it, and every other alert
\* of the collection is untouched.
C18_TransitionFrame ==
    [][\A i \in DOMAIN table :
          Transitioned(i) =>
              /\ SameImmutables(table[i], table'[i])
              /\ DOMAIN table' = DOMAIN table
              /\ \A j \in DOMAIN table \ {i} : table'[j] = table[j]]_vars

\* Two alerts, the first resolved by a request, still with the description
\* it was created with, while the second stays active.
C18_Witness ==
    /\ Len(table) = 2
    /\ table[1].status = "resolved"
    /\ table[2].status = "active"
    /\ table[1].message = <<table[1].metric_name, table[1].current_value>>
    /\ \E c \in BagToSet(calls) : c.op = "resolve" /\ c.id = 1 /\ c.res = "ok"

----------------------------------------------------------------------------
(* Retention                                                               *)

\* The ids of the records of a table.
StoredIds(t) == {t[i].id : i \in DOMAIN t}

\* C19: an alert is never deleted: an id of the collection is an id of the
\* collection after every step, whichever of create, acknowledge, resolve
\* and auto-resolve the step applies.
C19_NeverDeleted ==
    [][/\ StoredIds(table) \subseteq StoredIds(table')
       /\ \A i \in DOMAIN table :
              i \in DOMAIN table' /\ table'[i].id = table[i].id]_vars

\* Both alerts have reached a terminal status, one by a viewer and one by
\* the evaluator, and both are still in the collection.
C19_Witness ==
    /\ StoredIds(table) = {1, 2}
    /\ table[1].status = "auto_resolved"
    /\ table[2].status = "resolved"

----------------------------------------------------------------------------
(* The realtime connection drops and comes back                            *)

\* The connection of the realtime client fails: events emitted from now on
\* reach no channel; those already received are still handled.
Disconnect ==
    /\ socket = "joined"
    /\ socket' = "down"
    /\ UNCHANGED <<viewVars, backendVars, alerts_changes, alerts_channel, redelivered,
                   pageVars, provVars>>

\* The client is connected again and its channels have joined again. The
\* page subscribes with .subscribe() and no status callback, and its two
\* effects depend on [filters] alone: nothing of the page runs.
Reconnect ==
    /\ socket = "down"
    /\ socket' = "joined"
    /\ UNCHANGED <<viewVars, backendVars, alerts_changes, alerts_channel, redelivered,
                   pageVars, provVars>>

\* What is pending gets done, and a dropped connection comes back; the
\* evaluator, the viewers and the failure of the connection are free.
FairResync ==
    /\ WF_vars(ServeStats) /\ WF_vars(CompleteStats)
    /\ WF_vars(ServeAlerts) /\ WF_vars(CompleteAlerts)
    /\ WF_vars(AllQuiet /\ PageReceives)
    /\ WF_vars(AllQuiet /\ Reconnect)

\* The page after its first load, with the filter bar as it opens: under
\* these filters a record enters the selection by its INSERT alone.
InitResync ==
    /\ InitBackend /\ InitIdle
    /\ LoadedPage
    /\ filters = DefaultFilters
    /\ InitNoUser

NextResync ==
    \/ ServeStats
    \/ CompleteStats
    \/ ServeAlerts
    \/ CompleteAlerts
    \/ AllQuiet /\ Drained /\ CreateHandled
    \/ AllQuiet /\ Drained /\ OperateAlert
    \/ AllQuiet /\ PageReceives
    \/ AllQuiet /\ Drained /\ Disconnect
    \/ AllQuiet /\ Reconnect
    \/ AllQuiet /\ Drained /\ FilterChange

SpecResync == InitResync /\ [][NextResync]_vars /\ FairResync

\* The record of the collection with this id is one the page's query selects.
Selected(id) == id \in DOMAIN table /\ QueryMatches(filters, table[id])

\* The list shows the record as the collection holds it.
Current(id) == \E i \in DOMAIN alerts : alerts[i] = table[id]

\* C20: a failure of the realtime channel is followed by a resync: once the
\* connection is back, every alert the current filters select, inserted or
\* updated while it was down, is eventually in the list as the collection
\* holds it (or has left the selection).
C20_ReconnectResyncs ==
    \A id \in AlertIds :
        (mounted /\ socket = "joined" /\ Selected(id))
            ~> (Selected(id) => Current(id))

----------------------------------------------------------------------------
(* Failures of the viewer's actions are reported                           *)

\* The outcomes of a request that are not a success: the two state-machine
\* violations and a request the network failed.
Failures == {"NotFoundError", "InvalidTransitionError", "NetworkError"}

\* C21: acknowledgeAlert / resolveAlert return true only for a success
\* response, and then show the success notification; for every response
\* that is not ok and for every thrown error they return false and show an
\* error notification for that alert: no answer is dropped.
C21_FailuresReported ==
    [][\A call \in BagToSet(calls) :
          ProvReturn(call) =>
              /\ call.res \in Failures \cup {"ok"}
              /\ ActionReturns(call.res) =>
                    /\ call.res = "ok"
                    /\ provToasts' = Add(provToasts, ActionToast("success", call))
              /\ call.res \in Failures =>
                    /\ ~ActionReturns(call.res)
                    /\ provToasts' = Add(provToasts, ActionToast("error", call))]_vars

\* The viewer resolved alert 1 and then asked to acknowledge it: the
\* request was refused or lost, and its error notification is on screen.
C21_Witness ==
    /\ Len(table) >= 1
    /\ table[1].status = "resolved"
    /\ calls = EmptyBag
    /\ BagIn(ActionToast("error", acknowledgeAlert(1)), provToasts)

----------------------------------------------------------------------------
(* Logs page (Logs.jsx, component Logs)                                    *)

\* Everything but the state of the Logs page.
exceptLogsView ==
    <<alertVars, system_logs, authView, homeView, dashView, localAuth,
      exportView, roleView>>

LogsDefaultFilters ==
    [level |-> "ALL", category |-> "ALL", action |-> "", user_email |-> "",
     startDate |-> 0, endDate |-> 0]

\* A system_logs table of n rows, created_at a logical clock.
StoredLogs(n) ==
    [i \in 1 .. n |->
        [id |-> i,
         level |-> IF i % 2 = 0 THEN "ERROR" ELSE "INFO",
         category |-> IF i % 3 = 0 THEN "auth_event" ELSE "vm_operation",
         action |-> IF i % 3 = 0 THEN "login" ELSE "vm_start",
         user_email |-> "a@g.siit.tu.ac.th",
         created_at |-> i]]

\* The rows of the query fetchLogs builds, newest first.
LogQueryMatches(f, r) ==
    /\ f.level # "ALL" => r.level = f.level
    /\ f.category # "ALL" => r.category = f.category
    /\ f.action # "" => includes(toLowerCase(r.action), toLowerCase(f.action))
    /\ f.user_email # "" =>
          includes(toLowerCase(r.user_email), toLowerCase(f.user_email))
    /\ f.startDate # 0 => r.created_at >= f.startDate
    /\ f.endDate # 0 => r.created_at <= f.endDate

\* .order('created_at', { ascending: false }).range(from, to)
LogQuery(t, f, from, to) ==
    LET rows == SelectSeq(Reverse(t), LAMBDA r : LogQueryMatches(f, r))
    IN  SubSeq(rows, from + 1, Min(to + 1, Len(rows)))

\* The request fetchLogs(reset) sends from a render with this page and
\* these filters.
SentLogs(reset, renderPage, renderFilters) ==
    [phase |-> "sent", reset |-> reset,
     from |-> (IF reset THEN 0 ELSE renderPage) * PAGE_SIZE,
     filters |-> renderFilters, data |-> <<>>]

\* The Logs page right after mount with these filters: fetchLogs(true) has
\* been called by the effect on [filters].
LogsMounted(f) ==
    [logs |-> <<>>, loading |-> TRUE, error |-> "", filters |-> f, page |-> 0,
     hasMore |-> TRUE, fetches |-> SetToBag({SentLogs(TRUE, 0, f)})]

LogsOpen == logsView # <<>>

\* The store answers a list request with the matching rows of that moment.
ServeLogs ==
    /\ LogsOpen
    /\ \E f \in BagToSet(logsView.fetches) :
          /\ f.phase = "sent"
          /\ logsView' =
                [logsView EXCEPT !.fetches =
                    Add(Remove(@, f),
                        [f EXCEPT !.phase = "answered",
                                  !.data = LogQuery(system_logs, f.filters, f.from,
                                                    f.from + PAGE_SIZE - 1)])]
    /\ UNCHANGED exceptLogsView

\* A list response reaches the page: setLogs, setPage(0) on a reset,
\* setHasMore, setLoading(false).
CompleteLogs ==
    /\ LogsOpen
    /\ \E f \in BagToSet(logsView.fetches) :
          /\ f.phase = "answered"
          /\ logsView' =
                [logsView EXCEPT
                    !.logs = IF f.reset THEN f.data ELSE @ \o f.data,
                    !.page = IF f.reset THEN 0 ELSE @,
                    !.hasMore = (Len(f.data) = PAGE_SIZE),
                    !.loading = FALSE,
                    !.fetches = Remove(@, f)]
    /\ UNCHANGED exceptLogsView

\* handleLoadMore of the Logs page: setPage(prev => prev + 1), then
\* fetchLogs(false) of the render that drew the button.
LogsLoadMore ==
    /\ LogsOpen
    /\ logsView.hasMore
    /\ ~logsView.loading
    /\ BagCardinality(logsView.fetches) < MaxInflight
    /\ logsView' =
          [logsView EXCEPT
              !.page = @ + 1,
              !.loading = TRUE,
              !.error = "",
              !.fetches = Add(@, SentLogs(FALSE, logsView.page, logsView.filters))]
    /\ UNCHANGED exceptLogsView

\* handleFilterChange of the Logs page and the effect on [filters] it
\* re-runs: fetchLogs(true) with the new filters.
LogsFilterChange(key, value) ==
    /\ LogsOpen
    /\ logsView.filters[key] # value
    /\ BagCardinality(logsView.fetches) < MaxInflight
    /\ LET f == [logsView.filters EXCEPT ![key] = value]
       IN  logsView' =
              [logsView EXCEPT
                  !.filters = f,
                  !.loading = TRUE,
                  !.error = "",
                  !.fetches = Add(@, SentLogs(TRUE, logsView.page, f))]
    /\ UNCHANGED exceptLogsView

----------------------------------------------------------------------------
(* Pagination of the two viewers                                           *)

MaxStored == 120    \* rows of a table the viewers page through

\* handleLoadMore(): setPage(prev => prev + 1), then fetchAlerts(false) of
\* the render that drew the button, whose page is the one before the click.
\* The button is drawn while hasMore and disabled while loading.
handleLoadMore ==
    /\ mounted
    /\ hasMore
    /\ ~loading
    /\ BagCardinality(alertsFetches) < MaxInflight
    /\ page' = page + 1
    /\ loading' = TRUE
    /\ error' = ""
    /\ alertsFetches' = Add(alertsFetches, SentAlerts(FALSE))
    /\ UNCHANGED <<viewVars, backendVars, feedVars, provVars, mounted, alerts,
                   stats, filters, hasMore, statsFetches, statsErrors, toasts>>

\* The breach behind the i-th stored row: the three resources in turn.
StoredEvaluation(i) ==
    CASE i % 3 = 0 -> Evaluation("node-a", "cpu", "node_health", "high", 95)
      [] i % 3 = 1 -> Evaluation("vm-1", "mem", "vm_resource", "low", 85)
      [] OTHER -> Evaluation("vm-2", "disk", "vm_resource", "medium", 88)

\* A table of n rows as the evaluator and the viewers leave it: the newest
\* row of each resource is open, the older ones are closed.
StoredAlerts(n) ==
    [i \in 1 .. n |->
        [NewAlert(i, StoredEvaluation(i)) EXCEPT
            !.status = IF i > n - 3 THEN "active"
                       ELSE IF i % 2 = 0 THEN "resolved" ELSE "auto_resolved"]]

\* Sizes around the page boundaries.
StoredSizes ==
    {0, 3, PAGE_SIZE - 1, PAGE_SIZE, PAGE_SIZE + 1, 2 * PAGE_SIZE, MaxStored}

\* The filter bars the viewer pages with.
PagingFilters ==
    {DefaultFilters,
     [DefaultFilters EXCEPT !.status = "ALL"],
     [DefaultFilters EXCEPT !.status = "resolved"],
     [DefaultFilters EXCEPT !.status = "ALL", !.severity = "high"],
     [DefaultFilters EXCEPT !.status = "ALL", !.resource_name = "VM"]}

\* The Alerts page right after mount on a stored table.
AlertsOpened ==
    /\ table \in {StoredAlerts(n) : n \in StoredSizes}
    /\ mounted = TRUE
    /\ alerts = <<>>
    /\ stats = ZeroStats
    /\ filters \in PagingFilters
    /\ page = 0
    /\ hasMore = TRUE
    /\ loading = TRUE
    /\ error = ""
    /\ statsFetches = SetToBag({SentStats})
    /\ alertsFetches = SetToBag({SentAlerts(TRUE)})
    /\ statsErrors = FALSE
    /\ toasts = EmptyBag

\* The filter bars the viewer pages the logs with.
LogsPagingFilters ==
    {LogsDefaultFilters,
     [LogsDefaultFilters EXCEPT !.level = "ERROR"],
     [LogsDefaultFilters EXCEPT !.category = "auth_event"],
     [LogsDefaultFilters EXCEPT !.action = "login"],
     [LogsDefaultFilters EXCEPT !.endDate = PAGE_SIZE]}

\* The Logs page right after mount on a stored table.
LogsOpened ==
    /\ system_logs \in {StoredLogs(n) : n \in StoredSizes}
    /\ logsView \in {LogsMounted(f) : f \in LogsPagingFilters}

\* The views but the Logs page are not open.
InitNoViews ==
    /\ authView = <<>>
    /\ homeView = <<>>
    /\ dashView = <<>>
    /\ localAuth = <<>>
    /\ exportView = <<>>
    /\ roleView = <<>>

\* One of the two viewers has just been opened; nobody else is subscribed
\* and the realtime feed is silent.
InitPaging ==
    /\ calls = EmptyBag
    /\ alerts_changes = <<>>
    /\ alerts_channel = <<>>
    /\ redelivered = 0
    /\ socket = "joined"
    /\ InitNoUser
    /\ InitNoViews
    /\ \/ AlertsOpened /\ system_logs = <<>> /\ logsView = <<>>
       \/ table = <<>> /\ InitNoPage /\ LogsOpened

NextPaging ==
    \/ ServeStats
    \/ CompleteStats
    \/ ServeAlerts
    \/ CompleteAlerts
    \/ handleLoadMore
    \/ ServeLogs
    \/ CompleteLogs
    \/ LogsLoadMore

SpecPaging == InitPaging /\ [][NextPaging]_vars

\* Rows 0 .. (n + 1) * PAGE_SIZE - 1 of the filtered, ordered collection.
FirstPages(n) == Query(table, filters, 0, (n + 1) * PAGE_SIZE - 1)

LogsFirstPages(n) ==
    LogQuery(system_logs, logsView.filters, 0, (n + 1) * PAGE_SIZE - 1)

NoRowTwice(list) ==
    \A i, j \in DOMAIN list : list[i].id = list[j].id => i = j

\* The Alerts page shows the pages up to the one of the last click.
AlertsPaged ==
    (mounted /\ alertsFetches = EmptyBag)
        => (alerts = FirstPages(page) /\ NoRowTwice(alerts))

\* The Logs page shows the pages up to the one of the last click.
LogsPaged ==
    (LogsOpen /\ logsView.fetches = EmptyBag)
        => (logsView.logs = LogsFirstPages(logsView.page)
            /\ NoRowTwice(logsView.logs))

\* C22: in both viewers, after n Load More clicks from a fresh filter load,
\* with every fetch completed, the list is rows 0 .. (n + 1) * PAGE_SIZE - 1
\* of the filtered, ordered collection, and no row is in it twice.  (page
\* counts the clicks since the load.)
C22_LoadMoreAppendsNextPage == AlertsPaged /\ LogsPaged

----------------------------------------------------------------------------
(* Filters changed while list requests are in flight                       *)

\* The values the viewer picks in the filter bar of the Logs page.
LogsFilterChoices == {<<"level", "ALL">>, <<"level", "ERROR">>}

LogsFilterChanges ==
    \E c \in LogsFilterChoices : LogsFilterChange(c[1], c[2])

NextFilters ==
    \/ ServeStats
    \/ CompleteStats
    \/ ServeAlerts
    \/ CompleteAlerts
    \/ FilterChange
    \/ ServeLogs
    \/ CompleteLogs
    \/ LogsFilterChanges

SpecFilters == InitPaging /\ [][NextFilters]_vars

\* With no list request in flight the Alerts page shows the first page of
\* the filters selected last.
AlertsShowSelected ==
    (mounted /\ alertsFetches = EmptyBag)
        => (alerts = Query(table, filters, 0, PAGE_SIZE - 1) /\ page = 0)

\* With no list request in flight the Logs page shows the first page of
\* the filters selected last.
LogsShowSelected ==
    (LogsOpen /\ logsView.fetches = EmptyBag)
        => /\ logsView.logs =
                 LogQuery(system_logs, logsView.filters, 0, PAGE_SIZE - 1)
           /\ logsView.page = 0

\* C23: in both viewers, when filters are changed while list fetches are in
\* flight, then once every fetch has completed, in whatever order, the
\* list is the first page for the filters selected last and page is 0.
C23_LastFiltersWin == AlertsShowSelected /\ LogsShowSelected

----------------------------------------------------------------------------
(* Supabase AuthProvider (READme.md, lines 312-441)                        *)

\* Everything but the state of the AuthProvider.
exceptAuthView ==
    <<alertVars, system_logs, logsView, homeView, dashView, localAuth,
      exportView, roleView>>

NoRole == 0         \* useState(null): no role
StudentRole == 1    \* Role 1
StaffRole == 2      \* Role 2

\* The accounts of the model and their rows of public.Users.
AuthUsers == {"student@siit.tu.ac.th", "staff@tu.ac.th"}
UsersRole(userId) ==
    IF userId = "student@siit.tu.ac.th" THEN StudentRole ELSE StaffRole

\* fetchUserRole(userId): the select leaves; the row is not there yet.
SentRole(userId) == [userId |-> userId, phase |-> "sent", Role |-> NoRole]

\* The provider right after mount: loading, getSession() pending; stored
\* is the session the browser kept ("none": no session).
AuthMounted(stored) ==
    [user |-> "none", userRole |-> NoRole, loading |-> TRUE,
     getSession |-> "pending", stored |-> stored, roleFetches |-> EmptyBag]

AuthOpen == authView # <<>>

\* isStaff: userRole === 2
isStaff == authView.userRole = StaffRole

\* getSession() resolves: setSession, setUser, fetchUserRole for a user,
\* setLoading(false).
GetSessionResolves ==
    /\ AuthOpen
    /\ authView.getSession = "pending"
    /\ authView.stored # "none" =>
          BagCardinality(authView.roleFetches) < MaxInflight
    /\ authView' =
          [authView EXCEPT
              !.getSession = "done",
              !.user = authView.stored,
              !.loading = FALSE,
              !.roleFetches =
                  IF authView.stored # "none"
                  THEN Add(@, SentRole(authView.stored)) ELSE @]
    /\ UNCHANGED exceptAuthView

\* The onAuthStateChange callback with a session of this user (sign-in,
\* token refresh) or with none (sign-out, expiry).
AuthStateChange(newUser) ==
    /\ AuthOpen
    /\ newUser # "none" => BagCardinality(authView.roleFetches) < MaxInflight
    /\ authView' =
          [authView EXCEPT
              !.user = newUser,
              !.stored = newUser,
              !.userRole = IF newUser # "none" THEN @ ELSE NoRole,
              !.roleFetches =
                  IF newUser # "none" THEN Add(@, SentRole(newUser)) ELSE @]
    /\ UNCHANGED exceptAuthView

\* login(email, password) succeeds: the client signs in and the callback
\* runs with the new session.
AuthLogin ==
    \E u \in AuthUsers : authView.user = "none" /\ AuthStateChange(u)

\* The session is refreshed or ends without the viewer (expiry, sign-out
\* in another tab).
AuthSessionEvent ==
    \E u \in {authView.user, "none"} : authView.user # "none" /\ AuthStateChange(u)

\* logout(): signOut() runs the callback with no session (setUser(null),
\* setUserRole(null)), then setUserRole(null).
AuthLogout ==
    /\ AuthOpen
    /\ authView.user # "none"
    /\ authView' =
          [authView EXCEPT
              !.user = "none", !.stored = "none", !.userRole = NoRole]
    /\ UNCHANGED exceptAuthView

\* The database answers the select of fetchUserRole.
ServeRole ==
    /\ AuthOpen
    /\ \E f \in BagToSet(authView.roleFetches) :
          /\ f.phase = "sent"
          /\ authView' =
                [authView EXCEPT !.roleFetches =
                    Add(Remove(@, f),
                        [f EXCEPT !.phase = "answered",
                                  !.Role = UsersRole(f.userId)])]
    /\ UNCHANGED exceptAuthView

\* fetchUserRole sees its answer: if (data) setUserRole(data.Role).
CompleteRole ==
    /\ AuthOpen
    /\ \E f \in BagToSet(authView.roleFetches) :
          /\ f.phase = "answered"
          /\ authView' =
                [authView EXCEPT
                    !.userRole = f.Role,
                    !.roleFetches = Remove(@, f)]
    /\ UNCHANGED exceptAuthView

\* The select fails: data is null, nothing is set.
FailRole ==
    /\ AuthOpen
    /\ \E f \in BagToSet(authView.roleFetches) :
          authView' = [authView EXCEPT !.roleFetches = Remove(@, f)]
    /\ UNCHANGED exceptAuthView

\* The alert views and the other views are not open.
InitNoAlerts == InitBackend /\ InitNoPage /\ InitNoUser

InitAuth ==
    /\ InitNoAlerts
    /\ system_logs = <<>>
    /\ logsView = <<>>
    /\ authView \in {AuthMounted(stored) : stored \in AuthUsers \cup {"none"}}
    /\ homeView = <<>>
    /\ dashView = <<>>
    /\ localAuth = <<>>
    /\ exportView = <<>>
    /\ roleView = <<>>

NextAuth ==
    \/ GetSessionResolves
    \/ AuthLogin
    \/ AuthSessionEvent
    \/ AuthLogout
    \/ ServeRole
    \/ CompleteRole
    \/ FailRole

SpecAuth == InitAuth /\ [][NextAuth]_vars

\* C24: whenever no user is signed in, userRole is null and isStaff is
\* false, also after a role fetch started for an ended session completes.
C24_NoUserNoRole ==
    (AuthOpen /\ authView.user = "none")
        => (authView.userRole = NoRole /\ ~isStaff)

----------------------------------------------------------------------------
(* Proxmox Home view (unnamed/part_000)                                    *)

\* Everything but the state of the Home view.
exceptHomeView ==
    <<alertVars, system_logs, logsView, authView, dashView, localAuth,
      exportView, roleView>>

\* JavaScript values: numbers, strings and null.
Num(n) == [number |-> n]
Str(str) == [string |-> str]
Null == [null |-> TRUE]

\* String(value)
String(v) ==
    IF "string" \in DOMAIN v THEN v.string
    ELSE IF "number" \in DOMAIN v
    THEN CASE v.number = 100 -> "100"
           [] v.number = 101 -> "101"
           [] v.number = 102 -> "102"
           [] OTHER -> "103"
    ELSE "null"

\* The nodes of the cluster and the VMs /api/proxmox/vms?node= lists.
ProxmoxNodes == <<"proxmox-node-a", "proxmox-node-b">>

NodeVms(node) ==
    IF node = "proxmox-node-a"
    THEN <<[vmid |-> Num(100), name |-> "template", status |-> "stopped",
            type |-> "qemu"],
           [vmid |-> Num(101), name |-> "student-vm", status |-> "running",
            type |-> "qemu"]>>
    ELSE <<[vmid |-> Num(102), name |-> "lab-vm", status |-> "running",
            type |-> "qemu"]>>

\* Users.Proxmox of the signed-in user: no row, the placeholder, a vmid.
ProxmoxColumns == {Null, Str("pending"), Str("101"), Str("102")}

\* fetchVms(node): setVmLoading(true), setVmError(''), the request leaves.
SentVms(node) == [node |-> node, phase |-> "sent", data |-> <<>>]

\* The view right after mount: the node list and the user's Proxmox column
\* are being loaded.
HomeMounted(staff, column) ==
    [isStaff |-> staff, Proxmox |-> column, userProxmoxVmid |-> Null,
     proxmoxLoaded |-> FALSE, nodes |-> <<>>, selectedNode |-> "",
     vms |-> <<>>, vmLoading |-> FALSE, vmError |-> "", fetches |-> EmptyBag]

HomeOpen == homeView # <<>>

\* loadUserProxmox: setUserProxmoxVmid(data?.Proxmox ?? null)
LoadUserProxmox ==
    /\ HomeOpen
    /\ ~homeView.proxmoxLoaded
    /\ homeView' =
          [homeView EXCEPT
              !.proxmoxLoaded = TRUE,
              !.userProxmoxVmid = homeView.Proxmox]
    /\ UNCHANGED exceptHomeView

\* setSelectedNode(node) and the effect on [selectedNode]: fetchVms(node).
SelectNode(node) ==
    /\ homeView.selectedNode # node
    /\ BagCardinality(homeView.fetches) < MaxInflight
    /\ homeView' =
          [homeView EXCEPT
              !.selectedNode = node,
              !.vmLoading = TRUE,
              !.vmError = "",
              !.fetches = Add(@, SentVms(node))]

\* fetchNodes resolves: setNodes(data), setSelectedNode(first node).
FetchNodesResolves ==
    /\ HomeOpen
    /\ homeView.nodes = <<>>
    /\ BagCardinality(homeView.fetches) < MaxInflight
    /\ homeView' =
          [homeView EXCEPT
              !.nodes = ProxmoxNodes,
              !.selectedNode = ProxmoxNodes[1],
              !.vmLoading = TRUE,
              !.vmError = "",
              !.fetches = Add(@, SentVms(ProxmoxNodes[1]))]
    /\ UNCHANGED exceptHomeView

\* handleNodeChange: the viewer picks another node of the select.
handleNodeChange ==
    /\ HomeOpen
    /\ \E i \in DOMAIN homeView.nodes : SelectNode(homeView.nodes[i])
    /\ UNCHANGED exceptHomeView

\* The backend answers a VM-list request.
ServeVms ==
    /\ HomeOpen
    /\ \E f \in BagToSet(homeView.fetches) :
          /\ f.phase = "sent"
          /\ homeView' =
                [homeView EXCEPT !.fetches =
                    Add(Remove(@, f),
                        [f EXCEPT !.phase = "answered",
                                  !.data = NodeVms(f.node)])]
    /\ UNCHANGED exceptHomeView

\* fetchVms sees its answer: setVms(data); finally setVmLoading(false).
CompleteVms ==
    /\ HomeOpen
    /\ \E f \in BagToSet(homeView.fetches) :
          /\ f.phase = "answered"
          /\ homeView' =
                [homeView EXCEPT
                    !.vms = f.data,
                    !.vmLoading = FALSE,
                    !.fetches = Remove(@, f)]
    /\ UNCHANGED exceptHomeView

\* fetchVms fails: setVmError(message); finally setVmLoading(false).
FailVms ==
    /\ HomeOpen
    /\ \E f \in BagToSet(homeView.fetches) :
          homeView' =
              [homeView EXCEPT
                  !.vmError = "Failed to load VMs",
                  !.vmLoading = FALSE,
                  !.fetches = Remove(@, f)]
    /\ UNCHANGED exceptHomeView

\* userProxmoxVmid != null && String(vm.vmid) === String(userProxmoxVmid)
IsOwner(vm) ==
    /\ homeView.userProxmoxVmid # Null
    /\ String(vm.vmid) = String(homeView.userProxmoxVmid)

ownedVms == SelectSeq(homeView.vms, LAMBDA vm : IsOwner(vm))
otherVms == SelectSeq(homeView.vms, LAMBDA vm : ~IsOwner(vm))

Buttons == {"Start", "Stop", "Delete"}
ReadOnly == {}

\* Faulty variant of Controls: every viewer gets the buttons of an owner.
Controls_NoRoleCheck(vm) == Buttons

\* The cell of the Actions column: isStaff ? buttons : isOwner ? buttons :
\* Read Only.
Controls(vm) ==
    IF homeView.isStaff THEN Buttons
    ELSE IF IsOwner(vm) THEN Buttons
    ELSE ReadOnly

\* The rows of the table: otherVms.map(...) and then ownedVms.map(...).
RenderedRows ==
    [i \in 1 .. Len(otherVms) |->
        [vm |-> otherVms[i], controls |-> Controls(otherVms[i])]]
    \o [i \in 1 .. Len(ownedVms) |->
        [vm |-> ownedVms[i], controls |-> Controls(ownedVms[i])]]

InitHome ==
    /\ InitNoAlerts
    /\ system_logs = <<>>
    /\ logsView = <<>>
    /\ authView = <<>>
    /\ homeView \in {HomeMounted(staff, column) :
                         staff \in BOOLEAN, column \in ProxmoxColumns}
    /\ dashView = <<>>
    /\ localAuth = <<>>
    /\ exportView = <<>>
    /\ roleView = <<>>

NextHome ==
    \/ LoadUserProxmox
    \/ FetchNodesResolves
    \/ handleNodeChange
    \/ ServeVms
    \/ CompleteVms
    \/ FailVms

SpecHome == InitHome /\ [][NextHome]_vars

\* The number of rows of the table that show this VM.
RowsOf(vm) == Cardinality({i \in DOMAIN RenderedRows : RenderedRows[i].vm = vm})

\* The vmid is the one of the viewer's Users.Proxmox column.
SameVmid(vmid, column) == column # Null /\ String(vmid) = String(column)

\* C25: for a viewer who is not staff the Start / Stop / Delete controls
\* are on the VM whose vmid is the viewer's userProxmoxVmid and every other
\* VM is read-only; staff get the controls on every VM; ownedVms and
\* otherVms partition vms: every listed VM is shown in exactly one row.
C25_ControlsOnOwnVm ==
    HomeOpen =>
        /\ \A i \in DOMAIN RenderedRows :
              LET row == RenderedRows[i]
              IN  IF homeView.isStaff
                  THEN row.controls = Buttons
                  ELSE IF SameVmid(row.vm.vmid, homeView.userProxmoxVmid)
                       THEN row.controls = Buttons
                       ELSE row.controls = ReadOnly
        /\ Len(ownedVms) + Len(otherVms) = Len(homeView.vms)
        /\ \A i \in DOMAIN homeView.vms : RowsOf(homeView.vms[i]) = 1

\* A student whose Proxmox column is "101" sees node a: the template is
\* read-only and listed first, the student's VM 101 has the controls.
C25_Witness ==
    /\ HomeOpen
    /\ ~homeView.isStaff
    /\ homeView.userProxmoxVmid = Str("101")
    /\ Len(RenderedRows) = 2
    /\ RenderedRows[1].vm.vmid = Num(100)
    /\ RenderedRows[1].controls = ReadOnly
    /\ RenderedRows[2].vm.vmid = Num(101)
    /\ RenderedRows[2].controls = Buttons

\* With no VM-list fetch in flight (and none failed) the table shows the
\* VMs of the selected node.
VmsShowSelected ==
    (HomeOpen /\ homeView.fetches = EmptyBag /\ homeView.selectedNode # ""
        /\ homeView.vmError = "")
        => homeView.vms = NodeVms(homeView.selectedNode)

\* vmLoading is true while a VM-list fetch is in flight.
LoadingWhileFetching ==
    (HomeOpen /\ homeView.fetches # EmptyBag) => homeView.vmLoading

\* C26: when the selected node is changed while VM-list fetches are in
\* flight, once every fetch has completed the displayed vms are those of
\* the selected node, and vmLoading is true while a fetch is in flight.
C26_VmsOfSelectedNode == VmsShowSelected /\ LoadingWhileFetching

----------------------------------------------------------------------------
(* Dashboard URL of the Home view and the Settings page                    *)
(* (Frontend/src/pages/Home.jsx, Settings.jsx)                             *)

\* Everything but the dashboard URL state.
exceptDashView ==
    <<alertVars, system_logs, logsView, authView, homeView, localAuth,
      exportView, roleView>>

\* A URL carries who typed it, so that its origin can be told afterwards.
Url(by) == [by |-> by]
DefaultURL == Url("default")    \* the grafana.example.com placeholder
NoItem == Url("nothing")        \* getItem(...) === null, and the empty text

\* localStorage.getItem(`dashboardURL_${email}`)
getItem(storage, email) ==
    IF email \in DOMAIN storage THEN storage[email] ELSE NoItem

\* localStorage.setItem / removeItem under the key of this e-mail.
setItem(storage, email, url) ==
    [k \in DOMAIN storage \cup {email} |->
        IF k = email THEN url ELSE storage[k]]
removeItem(storage, email) ==
    [k \in DOMAIN storage \ {email} |-> storage[k]]

\* saved || fallback
OrElse(saved, fallback) == IF saved = NoItem THEN fallback ELSE saved

\* The effect of Home on [dashboardURL, storageKey, user?.email].
PersistEffect(storage, email, url) ==
    IF email # "none" THEN setItem(storage, email, url) ELSE storage

\* Home mounts: useState(() => getItem(storageKey) || default), then the
\* persistence effect runs.  With no user the key is dashboardURL_undefined.
HomeMountsOn(storage, email) ==
    LET url == OrElse(getItem(storage, IF email = "none" THEN "undefined"
                                                          ELSE email),
                      DefaultURL)
    IN  [route |-> "home", user |-> email, dashboardURL |-> url,
         value |-> NoItem, storage |-> PersistEffect(storage, email, url)]

\* What the browser holds when the application opens.
Storages ==
    {<<>>,
     [e \in {"student@siit.tu.ac.th"} |-> Url(e)],
     [e \in AuthUsers |-> Url(e)]}

DashOpen == dashView # <<>>

\* The viewer types in the input of Home: setDashboardURL, then the effect.
TypeDashboardURL ==
    /\ DashOpen
    /\ dashView.route = "home"
    /\ LET url == Url(dashView.user)
       IN  dashView' =
              [dashView EXCEPT
                  !.dashboardURL = url,
                  !.storage = PersistEffect(@, dashView.user, url)]
    /\ UNCHANGED exceptDashView

\* useAuth() hands the mounted page another user (sign-in, sign-out or a
\* session of another account): Home runs its effect under the new key,
\* Settings loads the value of the new key.
DashUserChanges ==
    /\ DashOpen
    /\ \E email \in AuthUsers \cup {"none"} :
          /\ email # dashView.user
          /\ dashView' =
                IF dashView.route = "home"
                THEN [dashView EXCEPT
                        !.user = email,
                        !.storage = PersistEffect(@, email, dashView.dashboardURL)]
                ELSE [dashView EXCEPT
                        !.user = email,
                        !.value = IF email = "none" THEN @
                                  ELSE getItem(dashView.storage, email)]
    /\ UNCHANGED exceptDashView

\* The viewer goes to the Settings page: Home unmounts, Settings mounts
\* with value '' and loads the saved value of the user's key.
OpenSettings ==
    /\ DashOpen
    /\ dashView.route = "home"
    /\ dashView' =
          [dashView EXCEPT
              !.route = "settings",
              !.value = IF dashView.user = "none" THEN NoItem
                        ELSE getItem(dashView.storage, dashView.user)]
    /\ UNCHANGED exceptDashView

\* The viewer goes back to Home: it mounts again.
OpenHome ==
    /\ DashOpen
    /\ dashView.route = "settings"
    /\ dashView' = HomeMountsOn(dashView.storage, dashView.user)
    /\ UNCHANGED exceptDashView

\* The viewer types in the textarea of Settings (or empties it).
TypeSettingsValue ==
    /\ DashOpen
    /\ dashView.route = "settings"
    /\ \E url \in {Url(dashView.user), NoItem} :
          dashView' = [dashView EXCEPT !.value = url]
    /\ UNCHANGED exceptDashView

\* save(): nothing without a key; an empty value removes the item; any
\* other value is stored under the user's key.
SettingsSave ==
    /\ DashOpen
    /\ dashView.route = "settings"
    /\ dashView.user # "none"
    /\ dashView' =
          [dashView EXCEPT !.storage =
              IF dashView.value = NoItem
              THEN removeItem(@, dashView.user)
              ELSE setItem(@, dashView.user, dashView.value)]
    /\ UNCHANGED exceptDashView

InitDash ==
    /\ InitNoAlerts
    /\ system_logs = <<>>
    /\ logsView = <<>>
    /\ authView = <<>>
    /\ homeView = <<>>
    /\ dashView \in {HomeMountsOn(storage, email) :
                         storage \in Storages, email \in AuthUsers \cup {"none"}}
    /\ localAuth = <<>>
    /\ exportView = <<>>
    /\ roleView = <<>>

NextDash ==
    \/ TypeDashboardURL
    \/ DashUserChanges
    \/ OpenSettings
    \/ OpenHome
    \/ TypeSettingsValue
    \/ SettingsSave

SpecDash == InitDash /\ [][NextDash]_vars

\* C27: the URL stored under a user's key was loaded from that key or
\* typed while that user was signed in (or is the placeholder Home starts
\* with): it is never a URL of another user.
C27_UrlUnderOwnKey ==
    DashOpen =>
        \A email \in DOMAIN dashView.storage :
            dashView.storage[email].by \in {email, "default"}

----------------------------------------------------------------------------
(* localStorage AuthProvider (src/context/AuthContext.jsx)                 *)

MaxLogins == 3      \* successful logins (the clock of loginTime)

\* Everything but the state of the localStorage AuthProvider.
exceptLocalAuth ==
    <<alertVars, system_logs, logsView, authView, homeView, dashView,
      exportView, roleView>>

\* The user names and passwords the Login form hands to login(); a form
\* field left out is undefined.
Usernames == {"alice", " alice", "bob"}
Undefined == "undefined"
Passwords == {"pw1", "pw2", Undefined}

\* username.trim()
trim(username) == IF username = " alice" THEN "alice" ELSE username

\* JSON.stringify / JSON.parse of an entry { password }: a property whose
\* value is undefined is left out of the text.
Stringify(entry) ==
    IF entry.password = Undefined THEN <<>> ELSE <<entry.password>>
Parse(text) == IF text = <<>> THEN [none |-> TRUE] ELSE [password |-> text[1]]

\* users[username].password of the parsed table
PasswordOf(users, username) ==
    LET entry == Parse(users[username])
    IN  IF "password" \in DOMAIN entry THEN entry.password ELSE Undefined

\* Faulty variant of login: a mismatch overwrites the stored password.
login_Overwrites(la, username, password) ==
    [la EXCEPT
        !.users = [k \in DOMAIN la.users \cup {username} |->
                     IF k = username THEN Stringify([password |-> password])
                     ELSE la.users[k]],
        !.user = [username |-> trim(username), loginTime |-> la.clock + 1],
        !.currentUser = [username |-> trim(username), loginTime |-> la.clock + 1],
        !.clock = la.clock + 1,
        !.attempt = <<username, password>>,
        !.returned = TRUE]

\* login(username, password): the state after it and the value it returns.
login(la, username, password) ==
    IF username \in DOMAIN la.users
          /\ PasswordOf(la.users, username) # password
    THEN [la EXCEPT !.attempt = <<username, password>>, !.returned = FALSE]
    ELSE [la EXCEPT
            !.users =
                IF username \in DOMAIN la.users THEN @
                ELSE [k \in DOMAIN la.users \cup {username} |->
                        IF k = username THEN Stringify([password |-> password])
                        ELSE la.users[k]],
            !.user = [username |-> trim(username), loginTime |-> la.clock + 1],
            !.currentUser =
                [username |-> trim(username), loginTime |-> la.clock + 1],
            !.clock = la.clock + 1,
            !.attempt = <<username, password>>,
            !.returned = TRUE]

\* The provider right after mount in a browser that has never been used.
LocalMounted ==
    [user |-> Null, loading |-> TRUE, currentUser |-> Null,
     users |-> <<>>, clock |-> 0, attempt |-> <<>>, returned |-> FALSE]

LocalOpen == localAuth # <<>>

\* The mount effect: setUser(JSON.parse(storedUser)), setLoading(false).
LocalLoad ==
    /\ LocalOpen
    /\ localAuth.loading
    /\ localAuth' =
          [localAuth EXCEPT !.user = localAuth.currentUser, !.loading = FALSE]
    /\ UNCHANGED exceptLocalAuth

\* The page is reloaded: the provider mounts again, the storage stays.
LocalReload ==
    /\ LocalOpen
    /\ ~localAuth.loading
    /\ localAuth' = [localAuth EXCEPT !.user = Null, !.loading = TRUE]
    /\ UNCHANGED exceptLocalAuth

LocalLogin(username, password) ==
    /\ LocalOpen
    /\ ~localAuth.loading
    /\ localAuth.clock < MaxLogins
    /\ localAuth' = login(localAuth, username, password)
    /\ UNCHANGED exceptLocalAuth

LocalLogins ==
    \E username \in Usernames, password \in Passwords :
        LocalLogin(username, password)

\* logout(): setUser(null), removeItem('currentUser').
LocalLogout ==
    /\ LocalOpen
    /\ localAuth.user # Null
    /\ localAuth' = [localAuth EXCEPT !.user = Null, !.currentUser = Null]
    /\ UNCHANGED exceptLocalAuth

InitLocal ==
    /\ InitNoAlerts
    /\ system_logs = <<>>
    /\ logsView = <<>>
    /\ authView = <<>>
    /\ homeView = <<>>
    /\ dashView = <<>>
    /\ localAuth = LocalMounted
    /\ exportView = <<>>
    /\ roleView = <<>>

NextLocal ==
    \/ LocalLoad
    \/ LocalReload
    \/ LocalLogins
    \/ LocalLogout

SpecLocal == InitLocal /\ [][NextLocal]_vars

----------------------------------------------------------------------------
(* Export panel of the Logs page (unnamed/part_001)                        *)

MaxExports == 2     \* clicks on an entry of the export menu

\* Everything but the state of the export panel.
exceptExportView ==
    <<alertVars, system_logs, logsView, authView, homeView, dashView,
      localAuth, roleView>>

\* The entries of the export menu.
ExportTypes ==
    {"metrics-csv", "metrics-json", "metrics-lineprotocol",
     "combined-csv-inline", "combined-json-inline"}

\* The values of a datetime-local input: empty, or a local date and time.
DateInputs == {"", "2025-01-01T00:00", "2025-01-02T00:00"}

\* new Date(value) of a filled datetime-local value, as minutes since the
\* epoch.
Date(value) ==
    CASE value = "2025-01-01T00:00" -> 28928160
      [] value = "2025-01-02T00:00" -> 28929600

\* The sessions useAuth() hands to the page: none, or one with a token.
ExportSessions == {Null, [access_token |-> "jwt"]}

\* exportType.replace('metrics-', '') and the combined entries.
ExportFormat(exportType) ==
    CASE exportType = "metrics-csv" -> "csv"
      [] exportType = "metrics-json" -> "json"
      [] exportType = "metrics-lineprotocol" -> "lineprotocol"
      [] exportType = "combined-csv-inline" -> "csv"
      [] exportType = "combined-json-inline" -> "json"

MultiFormat(exportType) ==
    exportType \in {"combined-csv-inline", "combined-json-inline"}

\* Every entry of the menu includes the metrics.
IncludeMetrics(exportType) ==
    \/ exportType \in {"metrics-csv", "metrics-json", "metrics-lineprotocol"}
    \/ MultiFormat(exportType)

\* The extension of the generated file name.
FileExt(format, multiFormat) ==
    IF multiFormat THEN "zip"
    ELSE IF format = "lineprotocol" THEN "txt" ELSE format

\* An early return or a throw of handleUnifiedExport: the error is set and
\* exporting is false again.
ExportFails(ev, message) ==
    [ev EXCEPT !.showExportMenu = FALSE,
               !.exporting = FALSE,
               !.error = message,
               !.calls = @ + 1]

\* The GET /api/export/unified request of handleUnifiedExport.
ExportRequest(ev, exportType) ==
    [format |-> ExportFormat(exportType),
     include_metrics |-> IncludeMetrics(exportType),
     multi_format |-> MultiFormat(exportType),
     start_time |-> Date(ev.exportStartDate),
     end_time |-> Date(ev.exportEndDate),
     Authorization |-> ev.session.access_token]

\* The handler without the comparison of the two dates.
handleUnifiedExport_NoRangeCheck(ev, exportType) ==
    IF IncludeMetrics(exportType)
       /\ (ev.exportStartDate = "" \/ ev.exportEndDate = "")
    THEN ExportFails(ev,
            "Please select both start and end dates for metrics export")
    ELSE IF ev.session = Null
    THEN ExportFails(ev, "No authentication token available")
    ELSE [ev EXCEPT !.showExportMenu = FALSE,
                    !.exporting = TRUE,
                    !.error = "",
                    !.fetching = ExportRequest(ev, exportType),
                    !.sent = @ + 1,
                    !.calls = @ + 1]

\* handleUnifiedExport(exportType) up to its await fetch(url).
handleUnifiedExport(ev, exportType) ==
    IF IncludeMetrics(exportType)
       /\ (ev.exportStartDate = "" \/ ev.exportEndDate = "")
    THEN ExportFails(ev,
            "Please select both start and end dates for metrics export")
    ELSE IF IncludeMetrics(exportType)
            /\ Date(ev.exportStartDate) >= Date(ev.exportEndDate)
    THEN ExportFails(ev, "Start date must be before end date")
    ELSE IF ev.session = Null
    THEN ExportFails(ev, "No authentication token available")
    ELSE [ev EXCEPT !.showExportMenu = FALSE,
                    !.exporting = TRUE,
                    !.error = "",
                    !.fetching = ExportRequest(ev, exportType),
                    !.sent = @ + 1,
                    !.calls = @ + 1]

\* The state of the export panel after mount.
ExportMounted ==
    [showExportMenu |-> FALSE,
     exporting |-> FALSE,
     exportStartDate |-> "",
     exportEndDate |-> "",
     session |-> Null,
     error |-> "",
     fetching |-> <<>>,
     download |-> "",
     sent |-> 0,
     calls |-> 0]

ExportOpen == exportView # <<>>

\* onChange of the two datetime-local inputs.
SetExportStartDate(value) ==
    /\ ExportOpen
    /\ exportView' = [exportView EXCEPT !.exportStartDate = value]
    /\ UNCHANGED exceptExportView

SetExportEndDate(value) ==
    /\ ExportOpen
    /\ exportView' = [exportView EXCEPT !.exportEndDate = value]
    /\ UNCHANGED exceptExportView

SetExportDates ==
    \E value \in DateInputs :
        SetExportStartDate(value) \/ SetExportEndDate(value)

\* The session of useAuth() changes: sign in, sign out.
ExportSessionChanges ==
    /\ ExportOpen
    /\ \E session \in ExportSessions :
        /\ session # exportView.session
        /\ exportView' = [exportView EXCEPT !.session = session]
    /\ UNCHANGED exceptExportView

\* The Export Data button (disabled while exporting) toggles the menu.
ToggleExportMenu ==
    /\ ExportOpen
    /\ ~exportView.exporting
    /\ exportView' = [exportView EXCEPT !.showExportMenu = ~@]
    /\ UNCHANGED exceptExportView

\* A click outside the menu closes it.
ClickOutsideExportMenu ==
    /\ ExportOpen
    /\ exportView.showExportMenu
    /\ exportView' = [exportView EXCEPT !.showExportMenu = FALSE]
    /\ UNCHANGED exceptExportView

\* A click on an entry of the menu, rendered while showExportMenu &&
\* !exporting.
ClickExport(exportType) ==
    /\ ExportOpen
    /\ exportView.showExportMenu
    /\ ~exportView.exporting
    /\ exportView.calls < MaxExports
    /\ exportView' = handleUnifiedExport(exportView, exportType)
    /\ UNCHANGED exceptExportView

ClickExports == \E exportType \in ExportTypes : ClickExport(exportType)

\* What fetch(url) resolves to: a 200 response, a 401, another status
\* with or without an error in its body, or a rejection.
ExportOutcomes == {"200", "401", "500 error", "500", "rejected"}

ExportError(outcome) ==
    CASE outcome = "401" -> "Authentication failed - please log in again"
      [] outcome = "500 error" -> "export failed"
      [] outcome = "500" -> "Export failed with status 500"
      [] outcome = "rejected" -> "Failed to fetch"

\* handleUnifiedExport after its await: the download, or the catch block,
\* and the finally block.
ExportResolves(outcome) ==
    /\ ExportOpen
    /\ exportView.fetching # <<>>
    /\ exportView' =
        [exportView EXCEPT
            !.fetching = <<>>,
            !.exporting = FALSE,
            !.error = IF outcome = "200" THEN @ ELSE ExportError(outcome),
            !.download =
                IF outcome = "200"
                THEN FileExt(exportView.fetching.format,
                             exportView.fetching.multi_format)
                ELSE @]
    /\ UNCHANGED exceptExportView

ExportSettles == \E outcome \in ExportOutcomes : ExportResolves(outcome)

InitExport ==
    /\ InitNoAlerts
    /\ system_logs = <<>>
    /\ logsView = <<>>
    /\ authView = <<>>
    /\ homeView = <<>>
    /\ dashView = <<>>
    /\ localAuth = <<>>
    /\ exportView = ExportMounted
    /\ roleView = <<>>

NextExport ==
    \/ SetExportDates
    \/ ExportSessionChanges
    \/ ToggleExportMenu
    \/ ClickOutsideExportMenu
    \/ ClickExports
    \/ ExportSettles

SpecExport == InitExport /\ [][NextExport]_vars

\* The export cannot be made: a date is missing, the start is not before
\* the end, or there is no access token.
CannotExport(ev) ==
    \/ ev.exportStartDate = ""
    \/ ev.exportEndDate = ""
    \/ Date(ev.exportStartDate) >= Date(ev.exportEndDate)
    \/ ev.session = Null

\* C29: a call of handleUnifiedExport with a date missing, with a start
\* that is not before the end, or without an access token issues no HTTP
\* request and sets an error; whenever no call is in progress (after a
\* failed validation, an HTTP error or a download) exporting is false.
C29_NoRequestWhenInvalid ==
    [][/\ (exportView'.calls = exportView.calls + 1
            /\ CannotExport(exportView))
        => /\ exportView'.sent = exportView.sent
           /\ exportView'.fetching = <<>>
           /\ exportView'.error # ""
           /\ ~exportView'.exporting
       /\ exportView'.fetching = <<>> => ~exportView'.exporting]_vars

\* A download was made, and a later call with the start after the end was
\* refused without a request.
C29_Witness ==
    /\ ExportOpen
    /\ exportView.calls = 2
    /\ exportView.sent = 1
    /\ exportView.download = "zip"
    /\ exportView.error = "Start date must be before end date"
    /\ ~exportView.exporting
    /\ exportView.fetching = <<>>

----------------------------------------------------------------------------
(* Role assignment of the Home view (pages/Home.jsx, ensureUserAndRole)    *)

MaxRuns == 3        \* runs of the role effect

ROLE_STUDENT == 1
ROLE_STAFF == 2

\* Everything but the state of the role assignment.
exceptRoleView ==
    <<alertVars, system_logs, logsView, authView, homeView, dashView,
      localAuth, exportView>>

\* The users that sign in: a student, and a staff member of the domain
\* without the "g." whose address starts with digits; both addresses are
\* typed in capitals.
RoleUsers ==
    {[id |-> "u1", email |-> "6522770001@G.SIIT.TU.AC.TH"],
     [id |-> "u2", email |-> "10023@SIIT.TU.AC.TH"]}

\* email.split("@")
split(email) ==
    CASE email = "6522770001@g.siit.tu.ac.th" -> <<"6522770001", "g.siit.tu.ac.th">>
      [] email = "10023@siit.tu.ac.th" -> <<"10023", "siit.tu.ac.th">>

\* The role, and the row of Users, computed from the address of a user.
ComputedRoleId(u) ==
    IF split(toLowerCase(u.email))[2] = "g.siit.tu.ac.th"
    THEN ROLE_STUDENT
    ELSE ROLE_STAFF

UsersPayload(u) ==
    [Email |-> toLowerCase(u.email), Role |-> Num(ComputedRoleId(u))]

\* upsert(row, { onConflict: key }) on a table kept as a function of its
\* key.
Upsert(rows, key, row) ==
    [k \in DOMAIN rows \cup {key} |-> IF k = key THEN row ELSE rows[k]]

\* The rows Users can hold for a user before they sign in.
StoredRoles == {Null, Num(ROLE_STUDENT), Num(ROLE_STAFF)}

UsersTables ==
    UNION {[ids -> StoredRoles] : ids \in SUBSET {u.id : u \in RoleUsers}}

\* The state of Home after mount, before a user is known.
RoleMounted(stored) ==
    [user |-> Null,
     role |-> Null,
     roleError |-> "",
     roleLoading |-> FALSE,
     Users |-> [id \in DOMAIN stored |-> [Role |-> stored[id]]],
     Student |-> <<>>,
     Faculty |-> <<>>,
     runs |-> <<>>,
     started |-> 0]

RoleOpen == roleView # <<>>

\* The runs of ensureUserAndRole that have not returned.
Runs == DOMAIN roleView.runs

\* The runs but one, and the runs with one of them changed.
Without(n) == [r \in Runs \ {n} |-> roleView.runs[r]]

With(n, run) == [r \in Runs \cup {n} |-> IF r = n THEN run ELSE roleView.runs[r]]

\* The cleanup of the effect: cancelled = true in every run before.
Cancelled == [r \in Runs |-> [roleView.runs[r] EXCEPT !.cancelled = TRUE]]

\* finally { if (!cancelled) setRoleLoading(false) } with the return of
\* run n.
Returns(n, rv) ==
    [rv EXCEPT !.runs = Without(n),
               !.roleLoading =
                    IF roleView.runs[n].cancelled THEN @ ELSE FALSE]

\* user?.id changes: the cleanup of the effect, and, for a signed-in user,
\* a run of ensureUserAndRole up to its first await.
RoleUserChanges(newUser) ==
    /\ RoleOpen
    /\ newUser # roleView.user
    /\ IF newUser = Null
       THEN roleView' = [roleView EXCEPT !.user = Null, !.runs = Cancelled]
       ELSE /\ roleView.started < MaxRuns
            /\ roleView' =
                [roleView EXCEPT
                    !.user = newUser,
                    !.roleLoading = TRUE,
                    !.roleError = "",
                    !.started = @ + 1,
                    !.runs =
                        [r \in Runs \cup {roleView.started + 1} |->
                            IF r \in Runs
                            THEN Cancelled[r]
                            ELSE [user |-> newUser,
                                  cancelled |-> FALSE,
                                  pc |-> "select",
                                  error |-> FALSE,
                                  data |-> Null]]]
    /\ UNCHANGED exceptRoleView

RoleUserChange == \E newUser \in RoleUsers \cup {Null} : RoleUserChanges(newUser)

\* Supabase answers from("Users").select("Role").eq("id", id).maybeSingle().
ServeSelect(n, fails) ==
    /\ RoleOpen
    /\ n \in Runs
    /\ roleView.runs[n].pc = "select"
    /\ LET id == roleView.runs[n].user.id
           data == IF ~fails /\ id \in DOMAIN roleView.Users
                   THEN [Role |-> roleView.Users[id].Role]
                   ELSE Null
       IN roleView' =
            [roleView EXCEPT
                !.runs = With(n, [roleView.runs[n] EXCEPT
                                    !.pc = "selected",
                                    !.error = fails,
                                    !.data = data])]
    /\ UNCHANGED exceptRoleView

\* The run computes the role and upserts Users whatever the row it read.
AfterSelect_IgnoresStored(n) ==
    /\ RoleOpen
    /\ n \in Runs
    /\ roleView.runs[n].pc = "selected"
    /\ LET run == roleView.runs[n]
       IN roleView' =
            IF run.cancelled
            THEN Returns(n, roleView)
            ELSE IF run.error
            THEN Returns(n, [roleView EXCEPT
                    !.role = Null,
                    !.roleError = "cannot load the role"])
            ELSE [roleView EXCEPT
                    !.runs = With(n, [run EXCEPT
                                !.pc = "upsert",
                                !.data = UsersPayload(run.user)])]
    /\ UNCHANGED exceptRoleView

\* ensureUserAndRole after its select: the stored role, or the upsert of
\* Users with the computed one.
AfterSelect(n) ==
    /\ RoleOpen
    /\ n \in Runs
    /\ roleView.runs[n].pc = "selected"
    /\ LET run == roleView.runs[n]
       IN roleView' =
            IF run.cancelled
            THEN Returns(n, roleView)
            ELSE IF run.error
            THEN Returns(n, [roleView EXCEPT
                    !.role = Null,
                    !.roleError = "cannot load the role"])
            ELSE IF run.data # Null /\ run.data.Role # Null
            THEN Returns(n, [roleView EXCEPT !.role = run.data.Role])
            ELSE [roleView EXCEPT
                    !.runs = With(n, [run EXCEPT
                                !.pc = "upsert",
                                !.data = UsersPayload(run.user)])]
    /\ UNCHANGED exceptRoleView

\* Supabase answers the upsert of Users with the Role of the row.
ServeUpsert(n, fails) ==
    /\ RoleOpen
    /\ n \in Runs
    /\ roleView.runs[n].pc = "upsert"
    /\ LET run == roleView.runs[n]
       IN roleView' =
            [roleView EXCEPT
                !.Users = IF fails THEN @
                          ELSE Upsert(@, run.user.id, run.data),
                !.runs = With(n, [run EXCEPT
                            !.pc = "upserted",
                            !.error = fails,
                            !.data = IF fails THEN Null
                                     ELSE [Role |-> run.data.Role]])]
    /\ UNCHANGED exceptRoleView

\* ensureUserAndRole after the upsert of Users: setRole, and the upsert
\* of Student or of Faculty Member.
AfterUpsert(n) ==
    /\ RoleOpen
    /\ n \in Runs
    /\ roleView.runs[n].pc = "upserted"
    /\ LET run == roleView.runs[n]
           finalRole == IF run.data # Null /\ run.data.Role # Null
                        THEN run.data.Role
                        ELSE Num(ComputedRoleId(run.user))
       IN roleView' =
            IF run.cancelled
            THEN Returns(n, roleView)
            ELSE IF run.error
            THEN Returns(n, [roleView EXCEPT
                    !.role = Null,
                    !.roleError = "cannot save the user"])
            ELSE IF finalRole \in {Num(ROLE_STUDENT), Num(ROLE_STAFF)}
            THEN [roleView EXCEPT
                    !.role = finalRole,
                    !.runs = With(n, [run EXCEPT
                                !.pc = "member",
                                !.data = [Role |-> finalRole]])]
            ELSE Returns(n, [roleView EXCEPT !.role = finalRole])
    /\ UNCHANGED exceptRoleView

\* The digits test of the staff id, and Number(idPart).
StaffId(idPart) ==
    CASE idPart = "10023" -> Num(10023)
      [] OTHER -> Null

\* Supabase answers the upsert of Student or of Faculty Member, and the
\* run returns.
ServeMember(n, fails) ==
    /\ RoleOpen
    /\ n \in Runs
    /\ roleView.runs[n].pc = "member"
    /\ LET run == roleView.runs[n]
           idPart == split(toLowerCase(run.user.email))[1]
           student == run.data.Role = Num(ROLE_STUDENT)
       IN roleView' =
            Returns(n, [roleView EXCEPT
                !.Student =
                    IF ~fails /\ student
                    THEN Upsert(@, run.user.id,
                            [role_id |-> run.data.Role, StudentID |-> idPart])
                    ELSE @,
                !.Faculty =
                    IF ~fails /\ ~student
                    THEN Upsert(@, run.user.id,
                            [role_id |-> run.data.Role,
                             staff_id |-> StaffId(idPart)])
                    ELSE @])
    /\ UNCHANGED exceptRoleView

RoleSteps ==
    \E n \in 1 .. MaxRuns :
        \/ \E fails \in BOOLEAN : ServeSelect(n, fails)
        \/ AfterSelect(n)
        \/ \E fails \in BOOLEAN : ServeUpsert(n, fails)
        \/ AfterUpsert(n)
        \/ \E fails \in BOOLEAN : ServeMember(n, fails)

InitRole ==
    /\ InitNoAlerts
    /\ system_logs = <<>>
    /\ logsView = <<>>
    /\ authView = <<>>
    /\ homeView = <<>>
    /\ dashView = <<>>
    /\ localAuth = <<>>
    /\ exportView = <<>>
    /\ \E stored \in UsersTables : roleView = RoleMounted(stored)

NextRole ==
    \/ RoleUserChange
    \/ RoleSteps

SpecRole == InitRole /\ [][NextRole]_vars

\* Run n takes a step of its own: it returns, or it moves on.
Stepped(n) ==
    /\ n \in Runs
    /\ \/ n \notin DOMAIN roleView'.runs
       \/ roleView'.runs[n].pc # roleView.runs[n].pc

\* Run n has read a row of Users with a role, and was not cancelled.
ReadsRole(n) ==
    /\ n \in Runs
    /\ roleView.runs[n].pc = "selected"
    /\ ~roleView.runs[n].cancelled
    /\ ~roleView.runs[n].error
    /\ roleView.runs[n].data # Null
    /\ roleView.runs[n].data.Role # Null

\* The upserts of Users, Student and Faculty Member in flight.
Upserts(rv) == {n \in DOMAIN rv.runs : rv.runs[n].pc \in {"upsert", "member"}}

\* The role of the address: student for the domain g.siit.tu.ac.th (in
\* small letters or in capitals), staff for every other one.
RoleOfDomain(u) ==
    IF u.email = "6522770001@G.SIIT.TU.AC.TH"
    THEN Num(ROLE_STUDENT)
    ELSE Num(ROLE_STAFF)

\* C30: a role stored in Users is never replaced by another one; a run
\* that read a stored role issues no upsert and sets the role state to
\* it; a run upserts Users only after it read no role, with the role of
\* the domain of the address; the role state is set only by a run that
\* was not cancelled, which is a run of the user signed in.
C30_RoleNeverOverwritten ==
    [][/\ \A id \in DOMAIN roleView.Users :
            roleView.Users[id].Role # Null
                => roleView'.Users[id].Role = roleView.Users[id].Role
       /\ \A n \in 1 .. MaxRuns :
            /\ (ReadsRole(n) /\ Stepped(n))
                => /\ roleView'.role = roleView.runs[n].data.Role
                   /\ Upserts(roleView') = Upserts(roleView)
                   /\ roleView'.Users = roleView.Users
                   /\ roleView'.Student = roleView.Student
                   /\ roleView'.Faculty = roleView.Faculty
            /\ (Stepped(n) /\ n \in DOMAIN roleView'.runs
                    /\ roleView'.runs[n].pc = "upsert")
                => /\ ~ReadsRole(n)
                   /\ roleView'.runs[n].data.Role
                        = RoleOfDomain(roleView.runs[n].user)
       /\ roleView'.role # roleView.role
            => \E n \in Runs :
                /\ Stepped(n)
                /\ ~roleView.runs[n].cancelled
                /\ roleView.runs[n].user = roleView.user]_vars

\* The student's row of Users was written by a run that found none and
\* was cancelled since; the student, signed in again, got the stored role
\* from a later run, without another upsert.
C30_Witness ==
    /\ RoleOpen
    /\ roleView.user # Null
    /\ roleView.user.id = "u1"
    /\ roleView.started = 3
    /\ roleView.runs = <<>>
    /\ "u1" \in DOMAIN roleView.Users
    /\ roleView.Users["u1"].Role = Num(ROLE_STUDENT)
    /\ roleView.role = Num(ROLE_STUDENT)
    /\ roleView.Student = <<>>
    /\ ~roleView.roleLoading

============================================================================
